---- MODULE Spec2Model ----
(***************************************************************************)
(* FoodieSpot reservation agent: the Catalog Store (data_manager.py), the  *)
(* Tool Layer (tools.py), the Conversation Orchestrator (agent.py) and the *)
(* session shell's tool-call log (app.py).                                 *)
(*                                                                         *)
(* A string that the code searches, compares, lower-cases, splits or       *)
(* parses is the sequence of its characters: a restaurant field, a query,  *)
(* a chat text, a date "2025-06-04", a time "19:00", an opening-hours      *)
(* entry "11:00-22:00".  The empty string is the empty sequence.  Weekday  *)
(* names, tool names and the formats of the messages the tools build are   *)
(* strings the code only compares as wholes or passes along; they are      *)
(* TLA+ strings.                                                           *)
(***************************************************************************)
EXTENDS Integers, Sequences, FiniteSets, TLC

VARIABLES
    restaurants,    \* DataManager.restaurants: the catalog, a sequence of records
    reservations,   \* DataManager.reservations: confirmation code -> record
    issued,         \* codes returned by successful make_reservation calls, in order
    call,           \* the last Catalog Store call: operation, arguments, result
    history,        \* agent.chat.history
    pc,             \* position of process_message within the current turn
    turn,           \* locals of the running process_message call
    returned,       \* what the last process_message call returned
    tool_logs,      \* st.session_state.tool_logs
    nturns,         \* turns started so far
    session,        \* the UI session whose script is running
    parked          \* pc, turn, returned and tool_logs of the other UI session

vars == <<restaurants, reservations, issued, call, history, pc, turn,
          returned, tool_logs, nturns, session, parked>>

dmVars == <<restaurants, reservations, issued, call>>
sessionVars == <<session, parked>>
agentVars == <<history, pc, turn, returned, tool_logs, nturns, session, parked>>

(***************************************************************************)
(* Bounds of the model.                                                    *)
(***************************************************************************)
MaxBookings == 2     \* successful bookings in one run
NumCodes == 2        \* size of the modelled slice of randint's range
MaxTurns == 2        \* user turns in one run
MaxQueryLen == 2     \* characters of a generated name query

(***************************************************************************)
(* Strings.  The characters of the model are the ASCII ones.               *)
(***************************************************************************)
\* str.lower() on one character
LowerChar(c) ==
    CASE c = "A" -> "a"
      [] c = "B" -> "b"
      [] c = "C" -> "c"
      [] c = "D" -> "d"
      [] c = "E" -> "e"
      [] c = "F" -> "f"
      [] c = "G" -> "g"
      [] c = "H" -> "h"
      [] c = "I" -> "i"
      [] c = "J" -> "j"
      [] c = "K" -> "k"
      [] c = "L" -> "l"
      [] c = "M" -> "m"
      [] c = "N" -> "n"
      [] c = "O" -> "o"
      [] c = "P" -> "p"
      [] c = "Q" -> "q"
      [] c = "R" -> "r"
      [] c = "S" -> "s"
      [] c = "T" -> "t"
      [] c = "U" -> "u"
      [] c = "V" -> "v"
      [] c = "W" -> "w"
      [] c = "X" -> "x"
      [] c = "Y" -> "y"
      [] c = "Z" -> "z"
      [] OTHER -> c

\* str.lower()
Lower(s) == [i \in 1..Len(s) |-> LowerChar(s[i])]

\* `sub in s` for strings; each operand is evaluated once
Contains(sub, s) ==
    \E a \in {sub}, b \in {s} :
       \E i \in 0..(Len(b) - Len(a)) : SubSeq(b, i + 1, i + Len(a)) = a

Abs(n) == IF n < 0 THEN -n ELSE n

\* str.split(sep) for a separator of one character: the pieces between the
\* places of sep, the two ends of s counting as places
RECURSIVE Pieces(_, _, _)
Pieces(s, places, from) ==
    IF from > Len(s) THEN <<>>
    ELSE \* the piece from the place `from` to the next place
      << SubSeq(s, from + 1,
                (CHOOSE p \in places :
                    p > from /\ \A q \in places : q > from => p <= q) - 1) >>
      \o Pieces(s, places,
                CHOOSE p \in places :
                   p > from /\ \A q \in places : q > from => p <= q)

\* s is evaluated once
Split(s, sep) ==
    CHOOSE pieces \in
       {Pieces(v, {Len(v) + 1} \cup {i \in 1..Len(v) : v[i] = sep}, 0) :
          v \in {s}} : TRUE

\* the string between the whitespace int() passes over at both ends: the
\* blank, tab, newline, vertical tab, form feed and carriage return (the
\* separators 0x1c to 0x1f, which str.strip() removes, are none to int())
Strip(s) ==
    LET inked == {i \in 1..Len(s) :
                    s[i] \notin {" ", "\t", "\n", "", "\f", "\r"}}
    IN IF inked = {} THEN <<>>
       ELSE SubSeq(s, CHOOSE i \in inked : \A j \in inked : i <= j,
                      CHOOSE i \in inked : \A j \in inked : i >= j)

Digits == <<"0", "1", "2", "3", "4", "5", "6", "7", "8", "9">>
IsDigit(c) == \E d \in 1..10 : Digits[d] = c
AllDigits(s) == \A i \in 1..Len(s) : IsDigit(s[i])

\* the number written by the digits among the first n characters of s, other
\* characters passed over
RECURSIVE NumberTo(_, _)
NumberTo(s, n) ==
    IF n = 0 THEN 0
    ELSE IF IsDigit(s[n])
         THEN 10 * NumberTo(s, n - 1) + (CHOOSE d \in 1..10 : Digits[d] = s[n]) - 1
         ELSE NumberTo(s, n - 1)

\* the number written by the digits of s
Number(s) == NumberTo(s, Len(s))

\* int(s) succeeds on the string s: blanks, an optional sign, a literal of
\* digits with single underscores between them, blanks
IntString(s) ==
    \E t \in {Strip(s)} :
       \E lit \in {IF t # <<>> /\ t[1] \in {"+", "-"} THEN Tail(t) ELSE t} :
          /\ lit # <<>>
          /\ IsDigit(lit[1]) /\ IsDigit(lit[Len(lit)])
          /\ \A i \in 1..Len(lit) : IsDigit(lit[i]) \/ lit[i] = "_"
          /\ \A i \in 1..(Len(lit) - 1) : ~(lit[i] = "_" /\ lit[i + 1] = "_")

\* int(s) where it succeeds
StringInt(s) ==
    IF Strip(s)[1] = "-" THEN -Number(Strip(s)) ELSE Number(Strip(s))

(***************************************************************************)
(* The catalog.  data/restaurants.json is read once by _load_data; the     *)
(* records below are one catalog of that shape.                            *)
(***************************************************************************)
Weekdays == <<"monday", "tuesday", "wednesday", "thursday", "friday",
              "saturday", "sunday">>

\* the values of opening_hours: "Closed", or an interval "HH:MM-HH:MM" of an
\* opening and a closing time
Closed == <<"C", "l", "o", "s", "e", "d">>
Interval(open, close) == open \o <<"-">> \o close

AllDays == {"monday", "tuesday", "wednesday", "thursday", "friday",
            "saturday", "sunday"}

Catalog ==
    << [id |-> 1, name |-> <<"A", "b">>,
        cuisine |-> <<"T", "h">>, location |-> <<"M", "i">>,
        address |-> <<"1", " ", "M", "i">>,
        seating_capacity |-> 4, rating |-> 45,
        description |-> <<"c", "o", "z">>, tags |-> << <<"r", "o">> >>,
        opening_hours |->
          [d \in AllDays |->
             IF d = "monday" THEN Closed
             ELSE Interval(<<"1", "1", ":", "0", "0">>,
                           <<"2", "2", ":", "0", "0">>)]],
       [id |-> 2, name |-> <<"A", "b", " ", "G", "c">>,
        cuisine |-> <<"i", "t">>, location |-> <<"D", "o">>,
        address |-> <<"2", " ", "m", "i">>,
        seating_capacity |-> 2, rating |-> 40,
        description |-> <<"r", "o">>, tags |-> << >>,
        opening_hours |->
          [d \in AllDays |->
             IF d \in {"monday", "tuesday"} THEN Closed
             ELSE Interval(<<"1", "7", ":", "3", "0">>,
                           <<"2", "3", ":", "0", "0">>)]],
       [id |-> 3, name |-> <<"D", "a", " ", "A", "b">>,
        cuisine |-> <<"t", "h", "a">>, location |-> <<"d", "o">>,
        address |-> <<"3", " ", "D", "o">>,
        seating_capacity |-> 6, rating |-> 38,
        description |-> <<"b", "i", "g">>,
        tags |-> << <<"c", "o">>, <<"G", "c">> >>,
        opening_hours |->
          [d \in AllDays \ {"monday", "sunday"} |->
             Interval(<<"0", "9", ":", "0", "0">>,
                      <<"2", "1", ":", "0", "0">>)]] >>

(***************************************************************************)
(* datetime.strptime and the weekday of a date.                            *)
(***************************************************************************)
IsLeap(y) == (y % 4 = 0) /\ ((y % 100 # 0) \/ (y % 400 = 0))

DaysInMonth(y, m) ==
    IF m = 2 THEN (IF IsLeap(y) THEN 29 ELSE 28)
    ELSE IF m \in {4, 6, 9, 11} THEN 30 ELSE 31

RECURSIVE DaysBeforeMonth(_, _)
DaysBeforeMonth(y, m) ==
    IF m <= 1 THEN 0 ELSE DaysBeforeMonth(y, m - 1) + DaysInMonth(y, m - 1)

\* the fields of a date or time string as _strptime's patterns match them:
\* %Y four digits, %m 1..12 and %d 1..31 in one or two digits (%d also a
\* blank and a digit), %H 0..23 and %M 0..59 in one or two digits
FieldIn(s, low, high) ==
    Len(s) \in {1, 2} /\ AllDigits(s) /\ Number(s) >= low /\ Number(s) <= high

\* strptime(date, "%Y-%m-%d") succeeds; the string is split once
ValidDate(date) ==
    \E f \in {Split(date, "-")} :
       /\ Len(f) = 3
       /\ Len(f[1]) = 4 /\ AllDigits(f[1])
       /\ FieldIn(f[2], 1, 12)
       /\ \/ FieldIn(f[3], 1, 31)
          \/ Len(f[3]) = 2 /\ f[3][1] = " " /\ IsDigit(f[3][2]) /\ f[3][2] # "0"
       /\ Number(f[1]) >= 1
       /\ Number(f[3]) <= DaysInMonth(Number(f[1]), Number(f[2]))

\* strptime(time, "%H:%M") succeeds
ValidTime(time) ==
    \E f \in {Split(time, ":")} :
       /\ Len(f) = 2
       /\ FieldIn(f[1], 0, 23)
       /\ FieldIn(f[2], 0, 59)

\* booking_date.strftime("%A").lower() for a date string strptime accepts:
\* ymd is the year, month and day written in its three fields, parsed once
DayOfWeek(date) ==
    CHOOSE day \in
       { Weekdays[(((ymd[1] - 1) * 365 + ((ymd[1] - 1) \div 4)
                    - ((ymd[1] - 1) \div 100) + ((ymd[1] - 1) \div 400)
                    + DaysBeforeMonth(ymd[1], ymd[2]) + ymd[3] + 6) % 7) + 1] :
           ymd \in { <<Number(f[1]), Number(f[2]), Number(f[3])>> :
                       f \in {Split(date, "-")} } } : TRUE

\* str.capitalize() on a weekday name
Capitalize(day) ==
    CASE day = "monday" -> "Monday"
      [] day = "tuesday" -> "Tuesday"
      [] day = "wednesday" -> "Wednesday"
      [] day = "thursday" -> "Thursday"
      [] day = "friday" -> "Friday"
      [] day = "saturday" -> "Saturday"
      [] day = "sunday" -> "Sunday"
      [] OTHER -> day

\* datetime.time comparison of two time strings strptime accepts: t1 < t2,
\* each split once into its hour and minute
TimeBefore(t1, t2) ==
    \E a \in {Split(t1, ":")}, b \in {Split(t2, ":")} :
       Number(a[1]) * 60 + Number(a[2]) < Number(b[1]) * 60 + Number(b[2])

(***************************************************************************)
(* DataManager.find_restaurant_by_name.  The result is the position of the *)
(* record in the catalog; 0 stands for None.                               *)
(***************************************************************************)
\* the lookup comparing the query as typed: name for name.lower() at line 104
find_restaurant_by_name_CaseSensitive(name) ==
    IF name = <<>> THEN 0
    ELSE
      LET exact == {i \in 1..Len(restaurants) :
                      Lower(restaurants[i].name) = name}
          matches == {i \in 1..Len(restaurants) :
                        Contains(name, Lower(restaurants[i].name))}
          key(i) == Abs(Len(restaurants[i].name) - Len(name))
      IN IF exact # {}
         THEN CHOOSE i \in exact : \A j \in exact : i <= j
         ELSE IF matches = {} THEN 0
         ELSE CHOOSE i \in matches :
                \A j \in matches :
                   key(i) < key(j) \/ (key(i) = key(j) /\ i <= j)

\* the partial match without the sort of line 121: the first match in catalog
\* order whatever its length
find_restaurant_by_name_FirstMatch(name) ==
    IF name = <<>> THEN 0
    ELSE
      LET name_lower == Lower(name)
          exact == {i \in 1..Len(restaurants) :
                      Lower(restaurants[i].name) = name_lower}
          matches == {i \in 1..Len(restaurants) :
                        Contains(name_lower, Lower(restaurants[i].name))}
      IN IF exact # {}
         THEN CHOOSE i \in exact : \A j \in exact : i <= j
         ELSE IF matches = {} THEN 0
         ELSE CHOOSE i \in matches : \A j \in matches : i <= j

find_restaurant_by_name(name) ==
    IF name = <<>> THEN 0
    ELSE
      LET name_lower == Lower(name)
          exact == {i \in 1..Len(restaurants) :
                      Lower(restaurants[i].name) = name_lower}
          matches == {i \in 1..Len(restaurants) :
                        Contains(name_lower, Lower(restaurants[i].name))}
          key(i) == Abs(Len(restaurants[i].name) - Len(name))
      IN IF exact # {}
         THEN CHOOSE i \in exact : \A j \in exact : i <= j
         ELSE IF matches = {} THEN 0
         ELSE CHOOSE i \in matches :
                \A j \in matches :
                   key(i) < key(j) \/ (key(i) = key(j) /\ i <= j)

\* restaurant['opening_hours'].get(day_of_week, ""); a missing entry, None at
\* line 163, is no more equal to "Closed" than the "" of line 171
HoursOf(r, day) ==
    IF day \in DOMAIN r.opening_hours THEN r.opening_hours[day] ELSE <<>>

\* open_time_str, close_time_str = hours.split("-") and the two strptime calls
\* succeed
ParsedHours(hours) ==
    \E f \in {Split(hours, "-")} :
       Len(f) = 2 /\ ValidTime(f[1]) /\ ValidTime(f[2])

(***************************************************************************)
(* DataManager.check_availability.  CheckOutcome is the branch the call    *)
(* takes: one of the rejections, or "Draw" when it reaches random.random().*)
(* `draw` is the value of random.random() > 0.2.  idx is the value of      *)
(* find_restaurant_by_name(restaurant_name).                               *)
(***************************************************************************)
\* the opening-hours test with the closing time excluded: >= for > at line 177
HoursOutcome_HalfOpen(hours, time) ==
    IF Contains(<<"-">>, hours)
    THEN IF ~ParsedHours(hours)
         THEN "InvalidFormat"
         ELSE IF \E f \in {Split(hours, "-")} :
                    TimeBefore(time, f[1]) \/ ~TimeBefore(time, f[2])
              THEN "OutOfHours"
              ELSE "Draw"
    ELSE "Draw"

\* data_manager.py 170-187: the opening-hours test
HoursOutcome(hours, time) ==
    IF Contains(<<"-">>, hours)
    THEN IF ~ParsedHours(hours)
         THEN "InvalidFormat"
         ELSE IF \E f \in {Split(hours, "-")} :
                    TimeBefore(time, f[1]) \/ TimeBefore(f[2], time)
              THEN "OutOfHours"
              ELSE "Draw"
    ELSE "Draw"

\* check_availability without the closed-day test of lines 162-168
OutcomeAt_NoClosedTest(idx, date, time, party_size) ==
    IF idx = 0 THEN "NotFound"
    ELSE IF ~ValidDate(date) \/ ~ValidTime(time) THEN "InvalidFormat"
    ELSE IF party_size > restaurants[idx].seating_capacity
         THEN "CapacityExceeded"
         ELSE HoursOutcome(HoursOf(restaurants[idx], DayOfWeek(date)), time)

\* check_availability as an inventory check: a slot for which the reservation
\* map holds a booking is fully booked
OutcomeAt_Inventory(idx, date, time, party_size) ==
    IF idx = 0 THEN "NotFound"
    ELSE IF ~ValidDate(date) \/ ~ValidTime(time) THEN "InvalidFormat"
    ELSE IF party_size > restaurants[idx].seating_capacity
         THEN "CapacityExceeded"
    ELSE IF HoursOf(restaurants[idx], DayOfWeek(date)) = Closed
         THEN "Closed"
    ELSE IF \E k \in DOMAIN reservations :
               /\ find_restaurant_by_name(reservations[k].restaurant_name) = idx
               /\ reservations[k].date = date
               /\ reservations[k].time = time
         THEN "FullyBooked"
         ELSE HoursOutcome(HoursOf(restaurants[idx], DayOfWeek(date)), time)

\* check_availability testing the closed day before the capacity
OutcomeAt_ClosedFirst(idx, date, time, party_size) ==
    IF idx = 0 THEN "NotFound"
    ELSE IF ~ValidDate(date) \/ ~ValidTime(time) THEN "InvalidFormat"
    ELSE IF HoursOf(restaurants[idx], DayOfWeek(date)) = Closed
         THEN "Closed"
    ELSE IF party_size > restaurants[idx].seating_capacity
         THEN "CapacityExceeded"
         ELSE HoursOutcome(HoursOf(restaurants[idx], DayOfWeek(date)), time)

\* data_manager.py 140-187
OutcomeAt(idx, date, time, party_size) ==
    IF idx = 0 THEN "NotFound"
    ELSE IF ~ValidDate(date) \/ ~ValidTime(time) THEN "InvalidFormat"
    ELSE IF party_size > restaurants[idx].seating_capacity
         THEN "CapacityExceeded"
    ELSE \* hours = restaurant["opening_hours"].get(day_of_week, ""), read once
         CHOOSE outcome \in
            { IF hours = Closed THEN "Closed" ELSE HoursOutcome(hours, time) :
                hours \in {HoursOf(restaurants[idx], DayOfWeek(date))} } : TRUE

CheckOutcome(restaurant_name, date, time, party_size) ==
    OutcomeAt(find_restaurant_by_name(restaurant_name), date, time, party_size)

\* the dictionary check_availability returns on each branch
AvailabilityResult(outcome, idx, restaurant_name, date, time, party_size, draw) ==
    CASE outcome = "NotFound" ->
           [available |-> FALSE,
            message |-> [fmt |-> "Restaurant '{}' not found.",
                         restaurant |-> restaurant_name]]
      [] outcome = "InvalidFormat" ->
           [available |-> FALSE,
            message |-> [fmt |-> "Invalid date or time format: {}"],
            restaurant |-> restaurant_name]
      [] outcome = "CapacityExceeded" ->
           [available |-> FALSE,
            message |-> [fmt |-> "Party size of {} exceeds the maximum capacity of {}.",
                         party_size |-> party_size,
                         capacity |-> restaurants[idx].seating_capacity],
            restaurant |-> restaurants[idx].name]
      [] outcome = "Closed" ->
           [available |-> FALSE,
            message |-> [fmt |-> "{} is closed on {}.",
                         restaurant |-> restaurants[idx].name,
                         day |-> Capitalize(DayOfWeek(date))],
            restaurant |-> restaurants[idx].name]
      [] outcome = "OutOfHours" ->
           [available |-> FALSE,
            message |-> [fmt |-> "{} is only open from {} to {} on {}.",
                         restaurant |-> restaurants[idx].name,
                         open |-> Split(HoursOf(restaurants[idx],
                                               DayOfWeek(date)), "-")[1],
                         close |-> Split(HoursOf(restaurants[idx],
                                                DayOfWeek(date)), "-")[2],
                         day |-> Capitalize(DayOfWeek(date))],
            restaurant |-> restaurants[idx].name,
            opening_hours |-> HoursOf(restaurants[idx], DayOfWeek(date))]
      [] outcome = "Draw" /\ draw ->
           [available |-> TRUE,
            message |-> [fmt |-> "Table for {} is available at {} on {} at {}.",
                         party_size |-> party_size,
                         restaurant |-> restaurants[idx].name,
                         date |-> date, time |-> time],
            restaurant |-> restaurants[idx].name,
            date |-> date, time |-> time, party_size |-> party_size]
      [] OTHER ->
           [available |-> FALSE,
            message |-> [fmt |-> "Sorry, {} is fully booked at that time. Please try another time.",
                         restaurant |-> restaurants[idx].name],
            restaurant |-> restaurants[idx].name]

\* restaurant (line 139) and the branch taken are each computed once
check_availability(restaurant_name, date, time, party_size, draw) ==
    CHOOSE result \in
       UNION { { AvailabilityResult(outcome, idx, restaurant_name, date, time,
                                    party_size, draw) :
                   outcome \in {OutcomeAt(idx, date, time, party_size)} } :
               idx \in {find_restaurant_by_name(restaurant_name)} } : TRUE

(***************************************************************************)
(* DataManager.make_reservation.  `code` is the value of                   *)
(* random.randint(10000, 99999).  The value holds the returned dictionary  *)
(* (result), the reservation map after the call, and the result of the     *)
(* internal availability check.  created_at (the wall clock at the insert) *)
(* is not modelled.                                                        *)
(***************************************************************************)
CodeMin == 10000
Codes == CodeMin..(CodeMin + NumCodes - 1)

\* f"RS-{n}"
ConfirmationCode(n) == <<"RS-", n>>

\* data_manager.py 238-264: the insert and the success dictionary
Store(availability, restaurant_name, date, time, party_size, user_name, user_phone, code) ==
    [availability |-> availability,
     result |-> [success |-> TRUE,
                 confirmation_code |-> ConfirmationCode(code),
                 message |-> [fmt |-> "Reservation confirmed at {} for {} people on {} at {}.",
                              restaurant |-> restaurant_name,
                              party_size |-> party_size,
                              date |-> date, time |-> time],
                 restaurant |-> restaurant_name,
                 date |-> date,
                 time |-> time,
                 party_size |-> party_size,
                 user_name |-> user_name],
     reservations |->
       [c \in DOMAIN reservations \cup {ConfirmationCode(code)} |->
          IF c = ConfirmationCode(code)
          THEN [confirmation_code |-> ConfirmationCode(code),
                restaurant_name |-> restaurant_name,
                date |-> date,
                time |-> time,
                party_size |-> party_size,
                user_name |-> user_name,
                user_phone |-> user_phone]
          ELSE reservations[c]]]

\* make_reservation storing the record without looking at the check's result
Booking_Unchecked(availability, restaurant_name, date, time, party_size, user_name, user_phone, code) ==
    Store(availability, restaurant_name, date, time, party_size, user_name,
          user_phone, code)

\* data_manager.py 231-264, availability being the result of line 229
Booking(availability, restaurant_name, date, time, party_size, user_name, user_phone, code) ==
    IF ~availability.available
    THEN [availability |-> availability,
          result |-> [success |-> FALSE,
                      message |-> availability.message,
                      restaurant |-> restaurant_name],
          reservations |-> reservations]
    ELSE Store(availability, restaurant_name, date, time, party_size,
               user_name, user_phone, code)

make_reservation(restaurant_name, date, time, party_size, user_name, user_phone, draw, code) ==
    Booking(check_availability(restaurant_name, date, time, party_size, draw),
            restaurant_name, date, time, party_size, user_name, user_phone,
            code)

\* The record of a Catalog Store call kept in `call`.
CheckRecord(result, drew, n, d, t, p) ==
    [op |-> "check_availability", status |-> "done",
     restaurant_name |-> n, date |-> d, time |-> t, party_size |-> p,
     drew |-> drew, result |-> result]

BookingRecord(b, drew, n, d, t, p, u, ph) ==
    [op |-> "make_reservation", status |-> "done",
     restaurant_name |-> n, date |-> d, time |-> t, party_size |-> p,
     user_name |-> u, user_phone |-> ph,
     drew |-> drew, availability |-> b.availability, result |-> b.result]

\* DataManager.get_reservation: the record, or found = FALSE for None
get_reservation(confirmation_code) ==
    IF confirmation_code \in DOMAIN reservations
    THEN [found |-> TRUE, reservation |-> reservations[confirmation_code]]
    ELSE [found |-> FALSE]

(***************************************************************************)
(* DataManager.get_restaurants.  criteria is a dictionary: a function from *)
(* its keys to their values.  A party_size value is [int |-> n] for the    *)
(* integer n, [int |-> n, frac |-> TRUE] for a number with a fractional    *)
(* part that int() truncates to n (2.5 is [int |-> 2, frac |-> TRUE]), and *)
(* [text |-> s] for the string s.                                          *)
(***************************************************************************)
Has(d, k) == k \in DOMAIN d

\* int(v) succeeds
IntOk(v) == IF "int" \in DOMAIN v THEN TRUE ELSE IntString(v.text)

\* int(v) where it succeeds
IntValue(v) == IF "int" \in DOMAIN v THEN v.int ELSE StringInt(v.text)

\* truth value of a party_size value
PartyTruthy(v) ==
    IF "int" \in DOMAIN v THEN v.int # 0 \/ "frac" \in DOMAIN v
    ELSE v.text # <<>>

\* the text filter run over self.restaurants instead of filtered_restaurants
\* at line 81: the text filter replaces the filters before it
get_restaurants_TextOverCatalog(criteria) ==
    IF DOMAIN criteria = {} THEN restaurants
    ELSE
      LET UseCuisine == Has(criteria, "cuisine") /\ criteria["cuisine"] # <<>>
          UseLocation == Has(criteria, "location") /\ criteria["location"] # <<>>
          UseParty == /\ Has(criteria, "party_size")
                      /\ PartyTruthy(criteria["party_size"])
                      /\ IntOk(criteria["party_size"])
          UseText == Has(criteria, "text") /\ criteria["text"] # <<>>
          Keep(r) ==
            IF UseText
            THEN \/ Contains(Lower(criteria["text"]), Lower(r.name))
                 \/ Contains(Lower(criteria["text"]), Lower(r.description))
                 \/ \E i \in 1..Len(r.tags) :
                       Contains(Lower(criteria["text"]), Lower(r.tags[i]))
            ELSE /\ UseCuisine =>
                      Contains(Lower(criteria["cuisine"]), Lower(r.cuisine))
                 /\ UseLocation =>
                      \/ Contains(Lower(criteria["location"]), Lower(r.location))
                      \/ Contains(Lower(criteria["location"]), Lower(r.address))
                 /\ UseParty =>
                      r.seating_capacity >= IntValue(criteria["party_size"])
      IN SelectSeq(restaurants, Keep)

get_restaurants(criteria) ==
    IF DOMAIN criteria = {} THEN restaurants
    ELSE
      LET UseCuisine == Has(criteria, "cuisine") /\ criteria["cuisine"] # <<>>
          UseLocation == Has(criteria, "location") /\ criteria["location"] # <<>>
          UseParty == /\ Has(criteria, "party_size")
                      /\ PartyTruthy(criteria["party_size"])
                      /\ IntOk(criteria["party_size"])
          UseText == Has(criteria, "text") /\ criteria["text"] # <<>>
          Keep(r) ==
            /\ UseCuisine =>
                 Contains(Lower(criteria["cuisine"]), Lower(r.cuisine))
            /\ UseLocation =>
                 \/ Contains(Lower(criteria["location"]), Lower(r.location))
                 \/ Contains(Lower(criteria["location"]), Lower(r.address))
            /\ UseParty =>
                      r.seating_capacity >= IntValue(criteria["party_size"])
            /\ UseText =>
                 \/ Contains(Lower(criteria["text"]), Lower(r.name))
                 \/ Contains(Lower(criteria["text"]), Lower(r.description))
                 \/ \E i \in 1..Len(r.tags) :
                       Contains(Lower(criteria["text"]), Lower(r.tags[i]))
      IN SelectSeq(restaurants, Keep)

(***************************************************************************)
(* The Tool Layer (tools.py).  args is the keyword-argument dictionary of  *)
(* the call.  Every tool's value is a record: raised (an exception left    *)
(* the function), result (the returned dictionary), reservations (the map  *)
(* after the call) and dm (the Catalog Store call it made, or NoCall).     *)
(***************************************************************************)
NoCall == [op |-> "none", status |-> "done"]

ToolNames == {"list_restaurants", "get_restaurant_details",
              "check_availability", "make_reservation"}

\* the parameters of each tool function
Params(name) ==
    CASE name = "list_restaurants" ->
           {"cuisine", "location", "party_size", "date", "time", "text"}
      [] name = "get_restaurant_details" -> {"restaurant_name"}
      [] name = "check_availability" ->
           {"restaurant_name", "date", "time", "party_size"}
      [] name = "make_reservation" ->
           {"restaurant_name", "date", "time", "party_size", "user_name",
            "user_phone"}
      [] OTHER -> {}

\* the parameters without a default value
Required(name) == IF name = "list_restaurants" THEN {} ELSE Params(name)

\* tool_function(**function_args) binds its arguments
Binds(name, args) ==
    /\ Required(name) \subseteq DOMAIN args
    /\ DOMAIN args \subseteq Params(name)

\* exc is the text of the exception: the call's binding failure is a TypeError
Raised ==
    [raised |-> TRUE, exc |-> "TypeError: missing or unexpected argument",
     reservations |-> reservations, dm |-> NoCall]

Returns(result) ==
    [raised |-> FALSE, result |-> result, reservations |-> reservations,
     dm |-> NoCall]

ErrorResult(text) == [error |-> TRUE, message |-> [fmt |-> text]]

\* the value of a tool that called the Catalog Store: dm is the call's record
Delegated(result, reservations_after, dm) ==
    [raised |-> FALSE, result |-> result, reservations |-> reservations_after,
     dm |-> dm]

\* the records of the calls of tools.py 37 and 68
SearchRecord(criteria, found) ==
    [op |-> "get_restaurants", status |-> "done", criteria |-> criteria,
     result |-> found]

FindRecord(name, idx) ==
    [op |-> "find_restaurant_by_name", status |-> "done", name |-> name,
     result |-> idx]

list_restaurants(args) ==
    LET keys == {k \in {"cuisine", "location", "text"} :
                    Has(args, k) /\ args[k] # <<>>}
                \cup {k \in {"party_size"} :
                        Has(args, k) /\ PartyTruthy(args[k])}
        criteria == [k \in keys |-> args[k]]
        found == get_restaurants(criteria)
        results == [i \in 1..Len(found) |->
                      [id |-> found[i].id,
                       name |-> found[i].name,
                       cuisine |-> found[i].cuisine,
                       location |-> found[i].location,
                       address |-> found[i].address,
                       seating_capacity |-> found[i].seating_capacity,
                       rating |-> found[i].rating]]
    IN Delegated([count |-> Len(found), restaurants |-> results],
                 reservations, SearchRecord(criteria, found))

get_restaurant_details(args) ==
    LET idx == find_restaurant_by_name(args["restaurant_name"])
        restaurant == restaurants[idx]
    IN IF idx = 0
       THEN Delegated([found |-> FALSE,
                       message |-> [fmt |-> "Restaurant '{}' not found.",
                                    restaurant |-> args["restaurant_name"]]],
                      reservations,
                      FindRecord(args["restaurant_name"], idx))
       ELSE Delegated([found |-> TRUE,
                     restaurant |->
                       [id |-> restaurant.id,
                        name |-> restaurant.name,
                        cuisine |-> restaurant.cuisine,
                        location |-> restaurant.location,
                        address |-> restaurant.address,
                        seating_capacity |-> restaurant.seating_capacity,
                        opening_hours |->
                          [d \in {Capitalize(k) : k \in DOMAIN restaurant.opening_hours} |->
                             restaurant.opening_hours[
                               CHOOSE k \in DOMAIN restaurant.opening_hours :
                                  Capitalize(k) = d]],
                        rating |-> restaurant.rating,
                        description |-> restaurant.description]],
                      reservations,
                      FindRecord(args["restaurant_name"], idx))

\* The validation shared by check_availability and make_reservation: the
\* error message of the first failing test, or "" when all pass.
PartySizeError(args) ==
    IF ~IntOk(args["party_size"])
    THEN "Invalid party size. Please provide a number."
    ELSE IF IntValue(args["party_size"]) <= 0
         THEN "Party size must be a positive number."
         ELSE ""

DateTimeError(args) ==
    IF args["date"] = <<>> \/ Len(Split(args["date"], "-")) # 3
    THEN "Invalid date format. Please use YYYY-MM-DD format."
    ELSE IF args["time"] = <<>> \/ Len(Split(args["time"], ":")) # 2
         THEN "Invalid time format. Please use HH:MM format (24-hour)."
         ELSE ""

FromCheck(result, drew, n, d, t, p) ==
    Delegated(result, reservations, CheckRecord(result, drew, n, d, t, p))

FromBooking(b, drew, n, d, t, p, u, ph) ==
    Delegated(b.result, b.reservations,
              BookingRecord(b, drew, n, d, t, p, u, ph))

tool_check_availability(args, draw) ==
    IF PartySizeError(args) # "" THEN Returns(ErrorResult(PartySizeError(args)))
    ELSE IF DateTimeError(args) # "" THEN Returns(ErrorResult(DateTimeError(args)))
    ELSE FromCheck(check_availability(args["restaurant_name"], args["date"],
                                      args["time"], IntValue(args["party_size"]),
                                      draw),
                   CheckOutcome(args["restaurant_name"], args["date"],
                                args["time"], IntValue(args["party_size"])) = "Draw",
                   args["restaurant_name"], args["date"], args["time"],
                   IntValue(args["party_size"]))

tool_make_reservation(args, draw, code) ==
    IF PartySizeError(args) # "" THEN Returns(ErrorResult(PartySizeError(args)))
    ELSE IF args["user_name"] = <<>>
    THEN Returns(ErrorResult("Please provide your name for the reservation."))
    ELSE IF args["user_phone"] = <<>>
    THEN Returns(ErrorResult("Please provide a contact phone number for the reservation."))
    ELSE IF DateTimeError(args) # "" THEN Returns(ErrorResult(DateTimeError(args)))
    ELSE FromBooking(make_reservation(args["restaurant_name"], args["date"],
                                      args["time"], IntValue(args["party_size"]),
                                      args["user_name"], args["user_phone"],
                                      draw, code),
                     CheckOutcome(args["restaurant_name"], args["date"],
                                  args["time"], IntValue(args["party_size"])) = "Draw",
                     args["restaurant_name"], args["date"], args["time"],
                     IntValue(args["party_size"]), args["user_name"],
                     args["user_phone"])

\* TOOL_MAP[name](**args); a call whose arguments do not bind raises TypeError
CallTool(name, args, draw, code) ==
    IF ~Binds(name, args) THEN Raised
    ELSE CASE name = "list_restaurants" -> list_restaurants(args)
           [] name = "get_restaurant_details" -> get_restaurant_details(args)
           [] name = "check_availability" -> tool_check_availability(args, draw)
           [] OTHER -> tool_make_reservation(args, draw, code)

(***************************************************************************)
(* The Conversation Orchestrator (agent.py).                               *)
(*                                                                         *)
(* A model response is [shape |-> "no_candidates"] (response.candidates is *)
(* empty), [shape |-> "no_content_attr"] (the candidate has no content     *)
(* attribute), [shape |-> "content_none"] (its content is None) or         *)
(* [shape |-> "parts", parts |-> <<...>>].  A part is a text part          *)
(* [kind |-> "text", text |-> words] or a function-call part               *)
(* [kind |-> "function_call", name |-> n, args |-> dictionary].            *)
(***************************************************************************)
TextPart(t) == [kind |-> "text", text |-> t]
FunctionCall(n, a) == [kind |-> "function_call", name |-> n, args |-> a]
Parts(ps) == [shape |-> "parts", parts |-> ps]
NoFunctionCall == [kind |-> "none"]

\* The fixed texts of process_message.
\* "I'm sorry, I couldn't quite process that. Could you please try rephrasing
\* your request?"
Apology ==
    <<"I", "'", "m", " ", "s", "o", "r", "r", "y", ",", " ", "I", " ", "c",
      "o", "u", "l", "d", "n", "'", "t", " ", "q", "u", "i", "t", "e", " ",
      "p", "r", "o", "c", "e", "s", "s", " ", "t", "h", "a", "t", ".", " ",
      "C", "o", "u", "l", "d", " ", "y", "o", "u", " ", "p", "l", "e", "a",
      "s", "e", " ", "t", "r", "y", " ", "r", "e", "p", "h", "r", "a", "s",
      "i", "n", "g", " ", "y", "o", "u", "r", " ", "r", "e", "q", "u", "e",
      "s", "t", "?">>
\* "I seem to be having some technical difficulties at the moment. Please try
\* again in a little bit!"
TechnicalDifficulties ==
    <<"I", " ", "s", "e", "e", "m", " ", "t", "o", " ", "b", "e", " ", "h",
      "a", "v", "i", "n", "g", " ", "s", "o", "m", "e", " ", "t", "e", "c",
      "h", "n", "i", "c", "a", "l", " ", "d", "i", "f", "f", "i", "c", "u",
      "l", "t", "i", "e", "s", " ", "a", "t", " ", "t", "h", "e", " ", "m",
      "o", "m", "e", "n", "t", ".", " ", "P", "l", "e", "a", "s", "e", " ",
      "t", "r", "y", " ", "a", "g", "a", "i", "n", " ", "i", "n", " ", "a",
      " ", "l", "i", "t", "t", "l", "e", " ", "b", "i", "t", "!">>
\* "OK. What next?"
OkWhatNext ==
    <<"O", "K", ".", " ", "W", "h", "a", "t", " ", "n", "e", "x", "t", "?">>
\* "I encountered an issue processing the tool result. How can I help
\* further?"
ProcessingIssue ==
    <<"I", " ", "e", "n", "c", "o", "u", "n", "t", "e", "r", "e", "d", " ",
      "a", "n", " ", "i", "s", "s", "u", "e", " ", "p", "r", "o", "c", "e",
      "s", "s", "i", "n", "g", " ", "t", "h", "e", " ", "t", "o", "o", "l",
      " ", "r", "e", "s", "u", "l", "t", ".", " ", "H", "o", "w", " ", "c",
      "a", "n", " ", "I", " ", "h", "e", "l", "p", " ", "f", "u", "r", "t",
      "h", "e", "r", "?">>
\* "cannot fulfill this request"
RefusalPhrase ==
    <<"c", "a", "n", "n", "o", "t", " ", "f", "u", "l", "f", "i", "l", "l",
      " ", "t", "h", "i", "s", " ", "r", "e", "q", "u", "e", "s", "t">>
\* the text _create_system_prompt returns, cut down to its first words
SystemPrompt ==
    <<"Y", "o", "u", " ", "a", "r", "e", " ", "F", "o", "o", "d", "i", "e",
      "S", "p", "o", "t">>
\* "OK.", the content of the follow-up send
Ok == <<"O", "K", ".">>

\* the scan without the break of line 167: a later valid function call
\* replaces an earlier one
RECURSIVE ScanParts_NoBreak(_, _, _)
ScanParts_NoBreak(parts, i, text) ==
    IF i > Len(parts) THEN [function_call |-> NoFunctionCall, text |-> text]
    ELSE IF parts[i].kind = "function_call" /\ parts[i].name # ""
         THEN IF ScanParts_NoBreak(parts, i + 1, <<>>).function_call.kind
                    = "function_call"
              THEN ScanParts_NoBreak(parts, i + 1, <<>>)
              ELSE [function_call |-> parts[i], text |-> <<>>]
         ELSE IF parts[i].kind = "text" /\ parts[i].text # <<>>
              THEN ScanParts_NoBreak(parts, i + 1, text \o parts[i].text)
              ELSE ScanParts_NoBreak(parts, i + 1, text)

\* agent.py 154-173: the text accumulated from the parts and the first
\* function call with a non-empty name.
RECURSIVE ScanParts(_, _, _)
ScanParts(parts, i, text) ==
    IF i > Len(parts) THEN [function_call |-> NoFunctionCall, text |-> text]
    ELSE IF parts[i].kind = "function_call" /\ parts[i].name # ""
         THEN [function_call |-> parts[i], text |-> <<>>]
         ELSE IF parts[i].kind = "text" /\ parts[i].text # <<>>
              THEN ScanParts(parts, i + 1, text \o parts[i].text)
              ELSE ScanParts(parts, i + 1, text)

InspectResponse(response) ==
    IF response.shape = "parts" THEN ScanParts(response.parts, 1, <<>>)
    ELSE [function_call |-> NoFunctionCall, text |-> <<>>]

\* agent.py 116-120
ToolNotFound(name) ==
    [result |-> [error |-> TRUE,
                 message |-> [fmt |-> "Tool '{}' not found.", name |-> name]],
     invoked |-> FALSE, reservations |-> reservations, dm |-> NoCall]

\* the except branch putting the exception's own text into the message
Guarded_LeaksError(name, r) ==
    IF r.raised
    THEN [result |-> [error |-> TRUE,
                      message |-> [fmt |-> r.exc, name |-> name]],
          invoked |-> TRUE, reservations |-> r.reservations, dm |-> r.dm]
    ELSE [result |-> r.result,
          invoked |-> TRUE, reservations |-> r.reservations, dm |-> r.dm]

\* agent.py 122-132: the try around tool_function(**function_args); r is the
\* value of the call
Guarded(name, r) ==
    IF r.raised
    THEN [result |-> [error |-> TRUE,
                      message |-> [fmt |-> "An error occurred while trying to execute the {} action.",
                                   name |-> name]],
          invoked |-> TRUE, reservations |-> r.reservations, dm |-> r.dm]
    ELSE [result |-> r.result,
          invoked |-> TRUE, reservations |-> r.reservations, dm |-> r.dm]

\* FoodieSpotAgent._execute_tool.  invoked: a function of TOOL_MAP was called.
execute_tool(tool_call, draw, code) ==
    IF tool_call.name \notin ToolNames THEN ToolNotFound(tool_call.name)
    ELSE Guarded(tool_call.name,
                 CallTool(tool_call.name, tool_call.args, draw, code))

\* A list or structure sent as an argument value reaches the tool as the
\* library's composite object (dict(function_call.args) converts the top level
\* only); it is truthy, and json.dumps has no encoding for it.
CompositeValue == << "RepeatedComposite" >>

\* json.dumps(tool_result) succeeds: the results of the tools are dictionaries
\* of strings, numbers, booleans, lists and dictionaries, but for the
\* user_name that make_reservation hands back as it was given
Serializable(tool_result) ==
    ~("user_name" \in DOMAIN tool_result
        /\ tool_result.user_name = CompositeValue)

\* agent.py 208-213: json.dumps(tool_result), and on TypeError the encoding of
\* a substitute
Serialize(tool_result) ==
    IF Serializable(tool_result) THEN [json |-> tool_result]
    ELSE [json |-> [error |-> TRUE,
                    message |-> [fmt |-> "Failed to serialize tool result"]]]

\* agent.py 215-219: the pseudo-user turn carrying the tool's result
ToolResponseMessage(name, tool_result) ==
    [role |-> "user",
     parts |-> << [kind |-> "tool_result", name |-> name,
                   serialized |-> Serialize(tool_result)] >>,
     made_in |-> turn.number, by |-> session]

\* agent.py 208-222: self.chat.history.append(tool_response_message), hist
\* being the history of the chat that self.chat is when line 222 runs
FeedBack(hist, name, tool_result) ==
    Append(hist, ToolResponseMessage(name, tool_result))

\* chat.send_message that succeeded: the sent content and the reply join the
\* history of the chat object the call was made on.  bound tells whether that
\* object is still self.chat; the history of a replaced one is out of reach.
Sent(hist, content, response, bound) ==
    IF bound # "current" THEN hist
    ELSE
    hist \o << [role |-> "user", parts |-> << TextPart(content) >>,
                made_in |-> turn.number, by |-> session],
               [role |-> "model",
                parts |-> IF response.shape = "parts" THEN response.parts
                          ELSE <<>>,
                made_in |-> turn.number, by |-> session] >>

RECURSIVE JoinTexts(_, _)
JoinTexts(parts, i) ==
    IF i > Len(parts) THEN <<>>
    ELSE IF parts[i].kind = "text" /\ parts[i].text # <<>>
         THEN parts[i].text \o JoinTexts(parts, i + 1)
         ELSE JoinTexts(parts, i + 1)

\* agent.py 239-252: the text taken from the follow-up response
FollowUpText(response) ==
    CASE response.shape \in {"no_candidates", "no_content_attr"} -> OkWhatNext
      [] response.shape = "content_none" -> ProcessingIssue
      [] OTHER -> JoinTexts(response.parts, 1)

\* the final check without .lower()
FinalText_CaseSensitive(text) ==
    IF text = <<>> \/ Contains(RefusalPhrase, text) THEN Apology ELSE text

\* agent.py 259-265: the final check before returning
FinalText(text) ==
    IF text = <<>> \/ Contains(RefusalPhrase, Lower(text)) THEN Apology
    ELSE text

\* the handler returning the turn's log with the message
OnFailure_KeepLogs(logs) ==
    [text |-> TechnicalDifficulties, logs |-> logs, raised |-> FALSE]

\* agent.py 267-270: the top-level handler of process_message
OnFailure(logs) ==
    [text |-> TechnicalDifficulties, logs |-> <<>>, raised |-> FALSE]

Return(text, logs) == [text |-> text, logs |-> logs, raised |-> FALSE]

\* the session log replaced by the turn's entries
ExtendLogs_Replace(session_logs, logs) == logs

\* app.py 80-81: if tool_logs: st.session_state.tool_logs.extend(tool_logs)
ExtendLogs(session_logs, logs) ==
    IF logs # <<>> THEN session_logs \o logs ELSE session_logs

\* the history after _start_conversation, run by session `owner` when
\* `clock` turns had been started
StartedHistory(clock, owner) ==
    << [role |-> "user", parts |-> << TextPart(SystemPrompt) >>,
        made_in |-> clock, by |-> owner] >>

\* the history after the constructor
FreshHistory == StartedHistory(0, 1)

NoReturn == [text |-> <<>>, logs |-> <<>>, raised |-> FALSE]

\* response and follow_up_response before their send_message returned
NoResponse == [shape |-> "none"]

\* the locals of process_message at its start, and what the checks read of
\* the call: number is the count of process_message calls made in the process
\* up to and with this one, sends the send_message calls made, invoked the
\* tool functions called, failed the round-trip that raised.  chat is the
\* object a send_message in flight was called on: "none" while no send is in
\* flight, "current" while that object is self.chat, "replaced" once
\* _start_conversation has bound self.chat to a new one.  seen is the history
\* of that object when the last send was called: what the request carried
\* before its own content.
NewTurn(user_message) ==
    [user_message |-> user_message,
     number |-> 0,
     chat |-> "none",
     tool_execution_logs |-> <<>>,
     response |-> NoResponse,
     function_call |-> NoFunctionCall,
     tool_result |-> <<>>,
     follow_up_response |-> NoResponse,
     final_response_text |-> <<>>,
     sends |-> 0, invoked |-> 0, seen |-> <<>>, failed |-> "none"]

\* the session state of a UI session whose script has run once
FreshSession ==
    [pc |-> "Idle", turn |-> NewTurn(<<>>), returned |-> NoReturn,
     tool_logs |-> <<>>]

(***************************************************************************)
(* One turn: process_user_input calling process_message.  The script       *)
(* threads of the sessions interleave between the statements of            *)
(* process_message, so each point where it reads or writes what another    *)
(* thread can reach (self.chat, the history, the Catalog Store) is a step. *)
(***************************************************************************)
\* app.py 95-97 and 63-77, agent.py 138-147: up to the send of line 149
StartTurn(limit, messages) ==
    /\ pc = "Idle"
    /\ nturns < limit
    /\ \E m \in messages : turn' = [NewTurn(m) EXCEPT !.number = nturns + 1]
    /\ pc' = "Sending"
    /\ returned' = NoReturn
    /\ nturns' = nturns + 1
    /\ UNCHANGED <<history, tool_logs>>
    /\ UNCHANGED sessionVars
    /\ UNCHANGED dmVars

\* agent.py 149: self.chat.send_message called; the chat is the one self.chat
\* is now, and the request carries its history
SendUserMessage ==
    /\ pc = "Sending"
    /\ turn' = [turn EXCEPT !.chat = "current", !.sends = @ + 1,
                            !.seen = history]
    /\ pc' = "AwaitingModel"
    /\ UNCHANGED <<history, returned, tool_logs, nturns>>
    /\ UNCHANGED sessionVars
    /\ UNCHANGED dmVars

\* agent.py 149-179 once the send returned and, without a function call,
\* 255-265
ModelResponds(responses) ==
    /\ pc = "AwaitingModel"
    /\ \E response \in responses :
         LET found == InspectResponse(response) IN
         /\ history' = Sent(history, turn.user_message, response, turn.chat)
         /\ IF found.function_call.kind = "function_call"
            THEN /\ turn' = [turn EXCEPT !.response = response,
                                         !.function_call = found.function_call,
                                         !.final_response_text = found.text,
                                         !.chat = "none"]
                 /\ pc' = "InvokingTool"
                 /\ UNCHANGED returned
            ELSE /\ turn' = [turn EXCEPT !.response = response,
                                         !.final_response_text = found.text,
                                         !.chat = "none"]
                 /\ pc' = "EmittingText"
                 /\ returned' = Return(FinalText(found.text),
                                       turn.tool_execution_logs)
    /\ UNCHANGED <<tool_logs, nturns>>
    /\ UNCHANGED sessionVars
    /\ UNCHANGED dmVars

\* agent.py 149 raising, caught at 267
ModelFails ==
    /\ pc = "AwaitingModel"
    /\ turn' = [turn EXCEPT !.chat = "none", !.failed = "user"]
    /\ returned' = OnFailure(turn.tool_execution_logs)
    /\ pc' = "EmittingText"
    /\ UNCHANGED <<history, tool_logs, nturns>>
    /\ UNCHANGED sessionVars
    /\ UNCHANGED dmVars

ToolCallOf(function_call) ==
    [name |-> function_call.name, args |-> function_call.args]

\* agent.py 181-199: tool_result = self._execute_tool(tool_call); what the
\* tool writes to the Catalog Store is written here
InvokeTool ==
    /\ pc = "InvokingTool"
    /\ \E draw \in BOOLEAN, code \in Codes :
         \E r \in { execute_tool(ToolCallOf(turn.function_call), draw, code) } :
            /\ reservations' = r.reservations
            /\ call' = IF r.dm.op = "none" THEN call ELSE r.dm
            /\ issued' = IF r.dm.op = "make_reservation" /\ r.dm.result.success
                         THEN Append(issued, r.dm.result.confirmation_code)
                         ELSE issued
            /\ turn' = [turn EXCEPT
                          !.tool_result = r.result,
                          !.invoked = IF r.invoked THEN @ + 1 ELSE @]
    /\ pc' = "Logging"
    /\ UNCHANGED <<restaurants, history, returned, tool_logs, nturns>>
    /\ UNCHANGED sessionVars

\* agent.py 203-206: tool_execution_logs.append
LogToolCall ==
    /\ pc = "Logging"
    /\ turn' = [turn EXCEPT
                  !.tool_execution_logs =
                     Append(@, [tool_call |-> ToolCallOf(turn.function_call),
                                result |-> turn.tool_result])]
    /\ pc' = "FeedingBack"
    /\ UNCHANGED <<history, returned, tool_logs, nturns>>
    /\ UNCHANGED sessionVars
    /\ UNCHANGED dmVars

\* agent.py 208-222: the result serialized and appended to the history of the
\* chat that self.chat is now
FeedBackResult ==
    /\ pc = "FeedingBack"
    /\ history' = FeedBack(history, turn.function_call.name, turn.tool_result)
    /\ pc' = "FollowingUp"
    /\ UNCHANGED <<turn, returned, tool_logs, nturns>>
    /\ UNCHANGED sessionVars
    /\ UNCHANGED dmVars

\* agent.py 224-233: self.chat.send_message("OK.") called; the chat is the one
\* self.chat is now, and the request carries its history
SendFollowUp ==
    /\ pc = "FollowingUp"
    /\ turn' = [turn EXCEPT !.chat = "current", !.sends = @ + 1,
                            !.seen = history]
    /\ pc' = "AwaitingFollowup"
    /\ UNCHANGED <<history, returned, tool_logs, nturns>>
    /\ UNCHANGED sessionVars
    /\ UNCHANGED dmVars

\* a loop: the follow-up response scanned for a function call as the first
\* response is, and that call executed in turn
FollowUpResponds_Loop(responses) ==
    /\ pc = "AwaitingFollowup"
    /\ \E response \in responses :
         /\ history' = Sent(history, Ok, response, turn.chat)
         /\ IF InspectResponse(response).function_call.kind = "function_call"
            THEN /\ turn' = [turn EXCEPT
                               !.follow_up_response = response,
                               !.function_call =
                                  InspectResponse(response).function_call,
                               !.chat = "none"]
                 /\ pc' = "InvokingTool"
                 /\ UNCHANGED returned
            ELSE /\ turn' = [turn EXCEPT
                               !.follow_up_response = response,
                               !.final_response_text = FollowUpText(response),
                               !.chat = "none"]
                 /\ returned' = Return(FinalText(FollowUpText(response)),
                                       turn.tool_execution_logs)
                 /\ pc' = "EmittingText"
    /\ UNCHANGED <<tool_logs, nturns>>
    /\ UNCHANGED sessionVars
    /\ UNCHANGED dmVars

\* agent.py 233-265 once the follow-up send returned: the exchange joins the
\* history of the chat the send was called on
FollowUpResponds(responses) ==
    /\ pc = "AwaitingFollowup"
    /\ \E response \in responses :
         /\ history' = Sent(history, Ok, response, turn.chat)
         /\ turn' = [turn EXCEPT
                       !.follow_up_response = response,
                       !.final_response_text = FollowUpText(response),
                       !.chat = "none"]
         /\ returned' = Return(FinalText(FollowUpText(response)),
                               turn.tool_execution_logs)
    /\ pc' = "EmittingText"
    /\ UNCHANGED <<tool_logs, nturns>>
    /\ UNCHANGED sessionVars
    /\ UNCHANGED dmVars

\* the follow-up failure leaving process_message as an exception: the except
\* of line 267 missing
FollowUpFails_Propagates ==
    /\ pc = "AwaitingFollowup"
    /\ turn' = [turn EXCEPT !.chat = "none", !.failed = "followup"]
    /\ pc' = "Raised"
    /\ UNCHANGED <<history, returned, tool_logs, nturns>>
    /\ UNCHANGED sessionVars
    /\ UNCHANGED dmVars

\* agent.py 233 raising, re-raised at 237 and caught at 267
FollowUpFails ==
    /\ pc = "AwaitingFollowup"
    /\ turn' = [turn EXCEPT !.chat = "none", !.failed = "followup"]
    /\ returned' = OnFailure(turn.tool_execution_logs)
    /\ pc' = "EmittingText"
    /\ UNCHANGED <<history, tool_logs, nturns>>
    /\ UNCHANGED sessionVars
    /\ UNCHANGED dmVars

\* app.py 77-87: the caller takes the pair and extends the session's log
DeliverToSession ==
    /\ pc = "EmittingText"
    /\ tool_logs' = ExtendLogs(tool_logs, returned.logs)
    /\ pc' = "Idle"
    /\ UNCHANGED <<history, turn, returned, nturns>>
    /\ UNCHANGED sessionVars
    /\ UNCHANGED dmVars

\* agent.py 95-98 seen from the other session's thread: self.chat is bound to
\* a new object, and a send that thread has in flight (called at line 149 or
\* 233 and not yet returned) stays on the object it was called on.  What the
\* thread does on self.chat after that, it does on the new object.
Rebound(other) ==
    IF other.turn.chat = "current"
    THEN [other EXCEPT !.turn.chat = "replaced"]
    ELSE other

\* app.py 100-110: the script run of a button click writes the debug section
\* before it reaches the button's line, and json.dumps of a logged argument or
\* result that has no encoding raises TypeError at 106 or 107 and ends the run
DebugSectionShown(logs) ==
    \A i \in DOMAIN logs :
       /\ Serializable(logs[i].tool_call.args)
       /\ Serializable(logs[i].result)

\* the button rebuilding the Catalog Store as well: the reservations dropped
\* with the conversation
ClearChatHistory_DropsReservations ==
    /\ pc = "Idle"
    /\ DebugSectionShown(tool_logs)
    /\ tool_logs' = <<>>
    /\ history' = StartedHistory(nturns, session)
    /\ reservations' = <<>>
    /\ parked' = Rebound(parked)
    /\ UNCHANGED <<pc, turn, returned, nturns, session>>
    /\ UNCHANGED <<restaurants, issued, call>>

\* app.py 113-118 with agent._start_conversation, in a script run that came
\* as far as line 113
ClearChatHistory ==
    /\ pc = "Idle"
    /\ DebugSectionShown(tool_logs)
    /\ tool_logs' = <<>>
    /\ history' = StartedHistory(nturns, session)
    /\ parked' = Rebound(parked)
    /\ UNCHANGED <<pc, turn, returned, nturns, session>>
    /\ UNCHANGED dmVars

\* The script thread of the other UI session runs next: Streamlit runs each
\* session's script in a thread of its own, and get_agent (app.py 25-29,
\* st.cache_resource) hands the one FoodieSpotAgent to all of them, so pc,
\* turn, returned and tool_logs change hands while history stays where it is.
SwitchSession ==
    /\ session' = 3 - session
    /\ parked' = [pc |-> pc, turn |-> turn, returned |-> returned,
                  tool_logs |-> tool_logs]
    /\ pc' = parked.pc
    /\ turn' = parked.turn
    /\ returned' = parked.returned
    /\ tool_logs' = parked.tool_logs
    /\ UNCHANGED <<history, nturns>>
    /\ UNCHANGED dmVars

(***************************************************************************)
(* Inputs of the turns.                                                    *)
(***************************************************************************)
UserMessages == { <<"b", "o", "o", "k">> }

BookArgs ==
    [k \in {"restaurant_name", "date", "time", "party_size", "user_name",
            "user_phone"} |->
       CASE k = "restaurant_name" -> <<"a", "B">>
         [] k = "date" -> <<"2", "0", "2", "5", "-", "0", "6", "-", "0", "4">>
         [] k = "time" -> <<"1", "9", ":", "0", "0">>
         [] k = "party_size" -> [int |-> 2]
         [] k = "user_name" -> <<"u">>
         [] OTHER -> <<"5">>]

CheckArgs ==
    [k \in {"restaurant_name", "date", "time", "party_size"} |-> BookArgs[k]]

ClosedDayArgs ==
    [CheckArgs EXCEPT
       !["date"] = <<"2", "0", "2", "5", "-", "0", "6", "-", "0", "2">>]
NoPartyArgs == [BookArgs EXCEPT !["party_size"] = [text |-> <<"x">>]]
\* a booking for 2.5 people
HalfPartyArgs == [BookArgs EXCEPT !["party_size"] = [int |-> 2, frac |-> TRUE]]
NoPhoneArgs == [BookArgs EXCEPT !["user_phone"] = <<>>]
\* a booking whose user_name is a list
ListNameArgs == [BookArgs EXCEPT !["user_name"] = CompositeValue]
DetailArgs == [k \in {"restaurant_name"} |-> <<"G", "c">>]
CuisineArgs == [k \in {"cuisine"} |-> <<"T", "H">>]

\* what the model may ask for
FunctionCalls ==
    { FunctionCall("make_reservation", BookArgs),
      FunctionCall("make_reservation", NoPartyArgs),
      FunctionCall("make_reservation", HalfPartyArgs),
      FunctionCall("make_reservation", NoPhoneArgs),
      FunctionCall("make_reservation", ListNameArgs),
      FunctionCall("make_reservation", CheckArgs),
      FunctionCall("check_availability", CheckArgs),
      FunctionCall("check_availability", ClosedDayArgs),
      FunctionCall("get_restaurant_details", DetailArgs),
      FunctionCall("get_restaurant_details", <<>>),
      FunctionCall("list_restaurants", <<>>),
      FunctionCall("list_restaurants", CuisineArgs),
      \* a search whose party_size is the string "0"
      FunctionCall("list_restaurants",
                   [k \in {"party_size"} |-> [text |-> <<"0">>]]),
      FunctionCall("cancel_reservation", DetailArgs) }

\* "Sure"
Greeting == <<"S", "u", "r", "e">>
\* "I Cannot Fulfill this request now"
Refusal ==
    <<"I", " ", "C", "a", "n", "n", "o", "t", " ", "F", "u", "l", "f", "i",
      "l", "l", " ", "t", "h", "i", "s", " ", "r", "e", "q", "u", "e", "s",
      "t", " ", "n", "o", "w">>
\* "I cannot fulfill this request."
RefusalSentence ==
    <<"I", " ", "c", "a", "n", "n", "o", "t", " ", "f", "u", "l", "f", "i",
      "l", "l", " ", "t", "h", "i", "s", " ", "r", "e", "q", "u", "e", "s",
      "t", ".">>
\* "Booked for you"
BookedForYou ==
    <<"B", "o", "o", "k", "e", "d", " ", "f", "o", "r", " ", "y", "o", "u">>

\* replies to the user send
FirstResponses ==
    { Parts(<< c >>) : c \in FunctionCalls }
    \cup
    { [shape |-> "no_candidates"],
      [shape |-> "no_content_attr"],
      [shape |-> "content_none"],
      Parts(<< >>),
      Parts(<< TextPart(Greeting) >>),
      Parts(<< TextPart(<<>>) >>),
      Parts(<< TextPart(Refusal) >>),
      Parts(<< TextPart(RefusalSentence) >>),
      \* "xcannot fulfill this request"
      Parts(<< TextPart(<<"x">> \o RefusalPhrase) >>),
      \* "cannot fulfil this request"
      Parts(<< TextPart(SubSeq(RefusalPhrase, 1, 13)
                        \o SubSeq(RefusalPhrase, 15, Len(RefusalPhrase))) >>),
      Parts(<< TextPart(SubSeq(RefusalPhrase, 1, 15)),
               TextPart(SubSeq(RefusalPhrase, 16, Len(RefusalPhrase))) >>),
      Parts(<< TextPart(Greeting),
               FunctionCall("check_availability", CheckArgs) >>),
      Parts(<< FunctionCall("", CheckArgs), TextPart(Greeting) >>),
      Parts(<< FunctionCall("cancel_reservation", DetailArgs),
               FunctionCall("make_reservation", BookArgs) >>) }

\* replies to the follow-up send
FollowUpResponses ==
    { [shape |-> "no_candidates"],
      [shape |-> "no_content_attr"],
      [shape |-> "content_none"],
      Parts(<< >>),
      Parts(<< TextPart(<<>>) >>),
      Parts(<< TextPart(Greeting) >>),
      Parts(<< TextPart(Refusal) >>),
      Parts(<< TextPart(RefusalSentence) >>),
      Parts(<< TextPart(SubSeq(BookedForYou, 1, 7)),
               TextPart(SubSeq(BookedForYou, 8, Len(BookedForYou))) >>),
      Parts(<< FunctionCall("make_reservation", BookArgs) >>),
      \* "Tool cancel_reservation not found."
      Parts(<< TextPart(<<"T", "o", "o", "l", " ", "c", "a", "n", "c", "e", "l", "_", "r", "e",
                          "s", "e", "r", "v", "a", "t", "i", "o", "n", " ", "n", "o", "t", " ",
                          "f", "o", "u", "n", "d", ".">>) >>),
      \* "the get_restaurant_details action failed"
      Parts(<< TextPart(<<"t", "h", "e", " ", "g", "e", "t", "_", "r", "e", "s", "t", "a", "u",
                          "r", "a", "n", "t", "_", "d", "e", "t", "a", "i", "l", "s", " ", "a",
                          "c", "t", "i", "o", "n", " ", "f", "a", "i", "l", "e", "d">>) >>) }

\* the replies of the many-turn specification
SessionFirstResponses ==
    { Parts(<< TextPart(Greeting) >>),
      Parts(<< FunctionCall("make_reservation", BookArgs) >>),
      Parts(<< FunctionCall("make_reservation", ListNameArgs) >>),
      Parts(<< FunctionCall("cancel_reservation", DetailArgs) >>) }

SessionFollowUpResponses ==
    { Parts(<< TextPart(Greeting) >>),
      Parts(<< FunctionCall("make_reservation", BookArgs) >>) }

(***************************************************************************)
(* Inputs of the Catalog Store calls.                                      *)
(***************************************************************************)
Names == { <<"A", "b">>, <<"a", "B">>, <<"G", "c">>, <<"b">>, <<"z">>, <<>> }
\* "2025-06-02" (a Monday), "2025-06-03", "2025-06-04", "2025-06-08" (a Sunday),
\* "2025-02-30", "2025-06", "2025-06-xx", "2025-6-4", "25-06-04"
Dates ==
    { <<"2", "0", "2", "5", "-", "0", "6", "-", "0", "2">>,
      <<"2", "0", "2", "5", "-", "0", "6", "-", "0", "3">>,
      <<"2", "0", "2", "5", "-", "0", "6", "-", "0", "4">>,
      <<"2", "0", "2", "5", "-", "0", "6", "-", "0", "8">>,
      <<"2", "0", "2", "5", "-", "0", "2", "-", "3", "0">>,
      <<"2", "0", "2", "5", "-", "0", "6">>,
      <<"2", "0", "2", "5", "-", "0", "6", "-", "x", "x">>,
      <<"2", "0", "2", "5", "-", "6", "-", "4">>,
      <<"2", "5", "-", "0", "6", "-", "0", "4">> }
\* "11:00", "19:00", "22:00", "23:30", "08:59", "25:00", "19", "019:00"
Times ==
    { <<"1", "1", ":", "0", "0">>,
      <<"1", "9", ":", "0", "0">>,
      <<"2", "2", ":", "0", "0">>,
      <<"2", "3", ":", "3", "0">>,
      <<"0", "8", ":", "5", "9">>,
      <<"2", "5", ":", "0", "0">>,
      <<"1", "9">>,
      <<"0", "1", "9", ":", "0", "0">> }
PartySizes == {0, 1, 2, 3, 5, 7}

BookNames == { <<"a", "B">>, <<"G", "c">>, <<"z">> }
BookDates ==
    { <<"2", "0", "2", "5", "-", "0", "6", "-", "0", "2">>,
      <<"2", "0", "2", "5", "-", "0", "6", "-", "0", "4">>,
      <<"2", "0", "2", "5", "-", "0", "2", "-", "3", "0">> }
BookTimes ==
    { <<"1", "9", ":", "0", "0">>,
      <<"0", "8", ":", "5", "9">> }
BookPartySizes == {2, 5}

(***************************************************************************)
(* Catalog Store calls made directly on the DataManager.                   *)
(***************************************************************************)
CheckAvailabilityCall ==
    /\ call.op = "check_availability"
    /\ call.status = "pending"
    /\ \E draw \in BOOLEAN :
         call' = CheckRecord(
                   check_availability(call.restaurant_name, call.date,
                                      call.time, call.party_size, draw),
                   CheckOutcome(call.restaurant_name, call.date, call.time,
                                call.party_size) = "Draw",
                   call.restaurant_name, call.date, call.time, call.party_size)
    /\ UNCHANGED <<restaurants, reservations, issued>>
    /\ UNCHANGED agentVars

\* the state after make_reservation returned b
Booked(b, drew, n, d, t, p, u, ph) ==
    /\ reservations' = b.reservations
    /\ issued' = IF b.result.success
                 THEN Append(issued, b.result.confirmation_code)
                 ELSE issued
    /\ call' = BookingRecord(b, drew, n, d, t, p, u, ph)

MakeReservationCall ==
    /\ Len(issued) < MaxBookings
    /\ \E n \in BookNames, d \in BookDates, t \in BookTimes,
          p \in BookPartySizes, u \in { <<"u">> }, ph \in { <<"5">> },
          draw \in BOOLEAN, code \in Codes :
          Booked(make_reservation(n, d, t, p, u, ph, draw, code),
                 CheckOutcome(n, d, t, p) = "Draw", n, d, t, p, u, ph)
    /\ UNCHANGED restaurants
    /\ UNCHANGED agentVars

GetReservationCall ==
    \E code \in Codes :
       /\ call' = [op |-> "get_reservation",
                   status |-> "done",
                   confirmation_code |-> ConfirmationCode(code),
                   result |-> get_reservation(ConfirmationCode(code))]
       /\ UNCHANGED <<restaurants, reservations, issued>>
       /\ UNCHANGED agentVars

(***************************************************************************)
(* Initial state: DataManager.__init__, FoodieSpotAgent.__init__ and the   *)
(* first run of the session script.                                        *)
(***************************************************************************)
Init ==
    /\ restaurants = Catalog
    /\ reservations = <<>>
    /\ issued = <<>>
    /\ call = NoCall
    /\ history = FreshHistory
    /\ pc = "Idle"
    /\ turn = NewTurn(<<>>)
    /\ returned = NoReturn
    /\ tool_logs = <<>>
    /\ nturns = 0
    /\ session = 1
    /\ parked = FreshSession

\* One check_availability call on every input of the bounded sets.
InitAvail ==
    /\ restaurants = Catalog
    /\ reservations = <<>>
    /\ issued = <<>>
    /\ call \in [op : {"check_availability"}, status : {"pending"},
                 restaurant_name : Names, date : Dates, time : Times,
                 party_size : PartySizes]
    /\ history = FreshHistory
    /\ pc = "Idle"
    /\ turn = NewTurn(<<>>)
    /\ returned = NoReturn
    /\ tool_logs = <<>>
    /\ nturns = 0
    /\ session = 1
    /\ parked = FreshSession

\* the name queries: every string of at most MaxQueryLen of these characters,
\* and three longer ones
Queries ==
    UNION { [1..n -> {"A", "a", "B", "b", "G", "c", "z"}] : n \in 0..MaxQueryLen }
    \cup { <<"a", "B", " ", "g", "C">>, <<"D", "A", " ", "a", "b">>,
           <<"b", " ", "G">>, <<" ">> }

\* the catalog file listing the same records in the opposite order
ReversedCatalog == [i \in 1..Len(Catalog) |-> Catalog[Len(Catalog) + 1 - i]]

\* One find_restaurant_by_name call on every query.
InitFind ==
    /\ restaurants \in {Catalog, ReversedCatalog}
    /\ reservations = <<>>
    /\ issued = <<>>
    /\ call \in [op : {"find_restaurant_by_name"}, status : {"pending"},
                 name : Queries]
    /\ history = FreshHistory
    /\ pc = "Idle"
    /\ turn = NewTurn(<<>>)
    /\ returned = NoReturn
    /\ tool_logs = <<>>
    /\ nturns = 0
    /\ session = 1
    /\ parked = FreshSession

FindRestaurantCall ==
    /\ call.op = "find_restaurant_by_name"
    /\ call.status = "pending"
    /\ call' = FindRecord(call.name, find_restaurant_by_name(call.name))
    /\ UNCHANGED <<restaurants, reservations, issued>>
    /\ UNCHANGED agentVars

NextFind == FindRestaurantCall
SpecFind == InitFind /\ [][NextFind]_vars

\* the criteria dictionaries: each key absent or given one of a few values
Absent == [given |-> FALSE]
Given(v) == [given |-> TRUE, value |-> v]

CriteriaOf(c, l, p, t) ==
    LET option == [k \in {"cuisine", "location", "party_size", "text"} |->
                     CASE k = "cuisine" -> c
                       [] k = "location" -> l
                       [] k = "party_size" -> p
                       [] OTHER -> t]
    IN [k \in {x \in DOMAIN option : option[x].given} |-> option[k].value]

CriteriaInputs ==
    { CriteriaOf(c, l, p, t) :
        c \in {Absent, Given(<<>>), Given(<<"T", "H">>), Given(<<"t">>)},
        l \in {Absent, Given(<<>>), Given(<<"d", "O">>), Given(<<"m", "i">>)},
        p \in {Absent, Given([int |-> 0]), Given([int |-> 3]),
               Given([int |-> 5]), Given([text |-> <<"x">>]),
               Given([text |-> <<"0">>]), Given([text |-> <<" ", "5">>]),
               Given([text |-> <<"5", "\n">>])},
        t \in {Absent, Given(<<>>), Given(<<"R", "o">>), Given(<<"g", "c">>)} }

\* One get_restaurants call on every criteria dictionary.
InitSearch ==
    /\ restaurants = Catalog
    /\ reservations = <<>>
    /\ issued = <<>>
    /\ call \in [op : {"get_restaurants"}, status : {"pending"},
                 criteria : CriteriaInputs]
    /\ history = FreshHistory
    /\ pc = "Idle"
    /\ turn = NewTurn(<<>>)
    /\ returned = NoReturn
    /\ tool_logs = <<>>
    /\ nturns = 0
    /\ session = 1
    /\ parked = FreshSession

\* the search filtering the catalog in place: self.restaurants assigned the
\* filtered list
GetRestaurantsCall_FiltersInPlace ==
    /\ call.op = "get_restaurants"
    /\ call.status = "pending"
    /\ call' = SearchRecord(call.criteria, get_restaurants(call.criteria))
    /\ restaurants' = get_restaurants(call.criteria)
    /\ UNCHANGED <<reservations, issued>>
    /\ UNCHANGED agentVars

GetRestaurantsCall ==
    /\ call.op = "get_restaurants"
    /\ call.status = "pending"
    /\ call' = SearchRecord(call.criteria, get_restaurants(call.criteria))
    /\ UNCHANGED <<restaurants, reservations, issued>>
    /\ UNCHANGED agentVars

NextSearch == GetRestaurantsCall
SpecSearch == InitSearch /\ [][NextSearch]_vars

(***************************************************************************)
(* DataManager.__init__ on a catalog source.  A source is what open() and  *)
(* json.load meet: the file exists or not, its bytes decode as UTF-8 or    *)
(* not, the text parses as JSON or not, and the value it parses to.        *)
(***************************************************************************)
Source(exists, utf8, json, value) ==
    [exists |-> exists, utf8 |-> utf8, json |-> json, value |-> value]

Sources ==
    { Source(FALSE, TRUE, TRUE, <<>>),
      Source(TRUE, FALSE, TRUE, <<>>),
      Source(TRUE, TRUE, FALSE, <<>>),
      Source(TRUE, TRUE, TRUE, <<>>),
      Source(TRUE, TRUE, TRUE, Catalog) }

\* data_manager.py 32-33: the exception open() or json.load(f) raises, "" for
\* none
ReadError(source) ==
    IF ~source.exists THEN "FileNotFoundError"
    ELSE IF ~source.utf8 THEN "UnicodeDecodeError"
    ELSE IF ~source.json THEN "JSONDecodeError"
    ELSE ""

\* DataManager._load_data: the list returned, or raised = TRUE when the
\* exception is not one of the two the except clause names
load_data(source) ==
    IF ReadError(source) \in {"FileNotFoundError", "JSONDecodeError"}
    THEN [raised |-> FALSE, restaurants |-> <<>>]
    ELSE IF ReadError(source) # ""
         THEN [raised |-> TRUE, restaurants |-> <<>>]
         ELSE [raised |-> FALSE, restaurants |-> source.value]

\* Startup on each source: tools.py line 5 builds the DataManager.  When
\* _load_data raises, the import of tools fails and there is no DataManager:
\* `restaurants` is then a placeholder that no call reads.
InitLoad ==
    /\ \E source \in Sources :
         /\ restaurants = load_data(source).restaurants
         /\ call = [op |-> "__init__",
                    status |-> IF load_data(source).raised THEN "raised"
                               ELSE "done",
                    source |-> source]
    /\ reservations = <<>>
    /\ issued = <<>>
    /\ history = FreshHistory
    /\ pc = "Idle"
    /\ turn = NewTurn(<<>>)
    /\ returned = NoReturn
    /\ tool_logs = <<>>
    /\ nturns = 0
    /\ session = 1
    /\ parked = FreshSession

\* the process started: the DataManager exists and its last call returned
StartedUp == call.status = "done"

LoadNames == { <<"A", "b">>, <<"b">>, <<>> }
LoadDates ==
    { <<"2", "0", "2", "5", "-", "0", "6", "-", "0", "4">>,
      <<"2", "0", "2", "5", "-", "0", "6">> }

\* a caller about to make a Catalog Store call
CatalogRequest ==
    /\ StartedUp
    /\ call' \in
         [op : {"find_restaurant_by_name"}, status : {"pending"},
          name : LoadNames]
         \cup
         [op : {"get_restaurants"}, status : {"pending"},
          criteria : { <<>>, CriteriaOf(Given(<<"t", "h">>), Absent, Absent,
                                        Absent) }]
         \cup
         [op : {"check_availability"}, status : {"pending"},
          restaurant_name : LoadNames, date : LoadDates,
          time : {<<"1", "9", ":", "0", "0">>},
          party_size : {2}]
    /\ UNCHANGED <<restaurants, reservations, issued>>
    /\ UNCHANGED agentVars

BookingAfterStartup == StartedUp /\ MakeReservationCall

NextLoad ==
    \/ CatalogRequest
    \/ FindRestaurantCall
    \/ GetRestaurantsCall
    \/ CheckAvailabilityCall
    \/ BookingAfterStartup
SpecLoad == InitLoad /\ [][NextLoad]_vars

NextAvail == CheckAvailabilityCall
SpecAvail == InitAvail /\ [][NextAvail]_vars

NextBook == MakeReservationCall \/ GetReservationCall
SpecBook == Init /\ [][NextBook]_vars

\* One call of process_message on every shape of reply.
NextTurn ==
    \/ StartTurn(1, UserMessages)
    \/ SendUserMessage
    \/ ModelResponds(FirstResponses)
    \/ ModelFails
    \/ InvokeTool
    \/ LogToolCall
    \/ FeedBackResult
    \/ SendFollowUp
    \/ FollowUpResponds(FollowUpResponses)
    \/ FollowUpFails
    \/ DeliverToSession
SpecTurn == Init /\ [][NextTurn]_vars

\* One call of process_message whose steps are eventually taken: each send
\* returns or raises (the library's call ends), _execute_tool, a call of
\* straight-line code and loops over the finite catalog, returns, and the
\* statements between them are straight-line code.
SpecTurnLive ==
    /\ Init
    /\ [][NextTurn]_vars
    /\ WF_vars(SendUserMessage)
    /\ WF_vars(ModelResponds(FirstResponses) \/ ModelFails)
    /\ WF_vars(InvokeTool)
    /\ WF_vars(LogToolCall)
    /\ WF_vars(FeedBackResult)
    /\ WF_vars(SendFollowUp)
    /\ WF_vars(FollowUpResponds(FollowUpResponses) \/ FollowUpFails)

\* A session: turns one after the other, and Clear Chat History between them.
Next ==
    \/ StartTurn(MaxTurns, UserMessages)
    \/ SendUserMessage
    \/ ModelResponds(SessionFirstResponses)
    \/ ModelFails
    \/ InvokeTool
    \/ LogToolCall
    \/ FeedBackResult
    \/ SendFollowUp
    \/ FollowUpResponds(SessionFollowUpResponses)
    \/ FollowUpFails
    \/ DeliverToSession
    \/ ClearChatHistory
Spec == Init /\ [][Next]_vars

\* The process as a whole: the turns and resets of a session, and Catalog
\* Store calls of every kind made between their steps.
StoreFirstResponses ==
    { Parts(<< TextPart(Greeting) >>),
      Parts(<< FunctionCall("list_restaurants", CuisineArgs) >>),
      Parts(<< FunctionCall("get_restaurant_details", DetailArgs) >>),
      Parts(<< FunctionCall("check_availability", CheckArgs) >>),
      Parts(<< FunctionCall("make_reservation", NoPhoneArgs) >>),
      Parts(<< FunctionCall("make_reservation", BookArgs) >>) }

StoreFollowUpResponses == { Parts(<< TextPart(Greeting) >>) }

\* a caller booking again the restaurant, date and time of a stored reservation
BookSameSlotAgain ==
    /\ StartedUp
    /\ Len(issued) < MaxBookings
    /\ \E k \in DOMAIN reservations, draw \in BOOLEAN, code \in Codes :
         Booked(make_reservation(reservations[k].restaurant_name,
                                 reservations[k].date, reservations[k].time,
                                 reservations[k].party_size,
                                 reservations[k].user_name,
                                 reservations[k].user_phone, draw, code),
                CheckOutcome(reservations[k].restaurant_name,
                             reservations[k].date, reservations[k].time,
                             reservations[k].party_size) = "Draw",
                reservations[k].restaurant_name, reservations[k].date,
                reservations[k].time, reservations[k].party_size,
                reservations[k].user_name, reservations[k].user_phone)
    /\ UNCHANGED restaurants
    /\ UNCHANGED agentVars

NextStore ==
    \/ StartTurn(1, UserMessages)
    \/ SendUserMessage
    \/ ModelResponds(StoreFirstResponses)
    \/ InvokeTool
    \/ LogToolCall
    \/ FeedBackResult
    \/ SendFollowUp
    \/ FollowUpResponds(StoreFollowUpResponses)
    \/ DeliverToSession
    \/ ClearChatHistory
    \/ CatalogRequest
    \/ FindRestaurantCall
    \/ GetRestaurantsCall
    \/ CheckAvailabilityCall
    \/ GetReservationCall
    \/ BookSameSlotAgain
SpecStore == Init /\ [][NextStore]_vars

\* Two UI sessions of one server process: their turns and resets interleaved.
SharedFirstResponses ==
    { Parts(<< TextPart(Greeting) >>),
      Parts(<< FunctionCall("check_availability", CheckArgs) >>),
      Parts(<< FunctionCall("cancel_reservation", DetailArgs) >>) }

SharedFollowUpResponses == { Parts(<< TextPart(Greeting) >>) }

NextShared ==
    \/ StartTurn(MaxTurns, UserMessages)
    \/ SendUserMessage
    \/ ModelResponds(SharedFirstResponses)
    \/ InvokeTool
    \/ LogToolCall
    \/ FeedBackResult
    \/ SendFollowUp
    \/ FollowUpResponds(SharedFollowUpResponses)
    \/ DeliverToSession
    \/ ClearChatHistory
    \/ SwitchSession
SpecShared == Init /\ [][NextShared]_vars

(***************************************************************************)
(* C10.  check_availability on a day the restaurant is closed.             *)
(***************************************************************************)
\* The finished call was for a found restaurant, a valid date whose weekday
\* entry is the closed marker, and a valid time.
ClosedDayCall ==
    /\ call.op = "check_availability"
    /\ call.status = "done"
    /\ find_restaurant_by_name(call.restaurant_name) # 0
    /\ ValidDate(call.date)
    /\ ValidTime(call.time)
    /\ HoursOf(restaurants[find_restaurant_by_name(call.restaurant_name)],
               DayOfWeek(call.date)) = Closed

IsClosedResult(result, r, date) ==
    /\ ~result.available
    /\ result.message = [fmt |-> "{} is closed on {}.",
                         restaurant |-> r.name,
                         day |-> Capitalize(DayOfWeek(date))]

\* C10 as stated: on a closed day every party size gets the Closed result and
\* the random draw is not reached.
C10_AsStated ==
    ClosedDayCall =>
       /\ IsClosedResult(call.result,
             restaurants[find_restaurant_by_name(call.restaurant_name)],
             call.date)
       /\ ~call.drew

\* C10 amended: on a closed day the random draw is never reached and the call
\* is never available; the result is Closed when party_size is at most the
\* seating capacity, and the capacity rejection otherwise.
C10_ClosedDay ==
    ClosedDayCall =>
       LET r == restaurants[find_restaurant_by_name(call.restaurant_name)] IN
       /\ ~call.drew
       /\ ~call.result.available
       /\ (call.party_size <= r.seating_capacity
             => IsClosedResult(call.result, r, call.date))
       /\ (call.party_size > r.seating_capacity
             => call.result.message.fmt
                  = "Party size of {} exceeds the maximum capacity of {}.")

C10_Witness ==
    /\ ClosedDayCall
    /\ call.party_size
         <= restaurants[find_restaurant_by_name(call.restaurant_name)].seating_capacity
    /\ call.result.message.fmt = "{} is closed on {}."
    /\ call.result.message.day = "Monday"

(***************************************************************************)
(* C1.  make_reservation stores a record only after its own availability   *)
(* check, run with the same arguments, returned available.                 *)
(***************************************************************************)
\* The record make_reservation stores for the call recorded in c.
RecordOf(c) ==
    [confirmation_code |-> c.result.confirmation_code,
     restaurant_name |-> c.restaurant_name,
     date |-> c.date, time |-> c.time, party_size |-> c.party_size,
     user_name |-> c.user_name, user_phone |-> c.user_phone]

\* One step: the map changes only by a make_reservation whose internal check,
\* run on the call's own arguments, was available, and then by the insert of
\* that call's record; a make_reservation whose check was not available
\* returns success = FALSE with the check's message and leaves the map as it was.
C1_Step ==
    /\ reservations' # reservations =>
         /\ call'.op = "make_reservation"
         /\ call'.availability.available
         /\ call'.availability.date = call'.date
         /\ call'.availability.time = call'.time
         /\ call'.availability.party_size = call'.party_size
         /\ call'.availability.restaurant
              = restaurants[find_restaurant_by_name(call'.restaurant_name)].name
         /\ call'.result.success
         /\ DOMAIN reservations'
              = DOMAIN reservations \cup {call'.result.confirmation_code}
         /\ reservations'[call'.result.confirmation_code] = RecordOf(call')
         /\ \A k \in DOMAIN reservations \ {call'.result.confirmation_code} :
               reservations'[k] = reservations[k]
    /\ (call'.op = "make_reservation" /\ ~call'.availability.available) =>
         /\ ~call'.result.success
         /\ call'.result.message = call'.availability.message
         /\ reservations' = reservations

\* Every stored record's party_size is at most the seating capacity of the
\* restaurant its name resolves to.
C1_Capacity ==
    \A k \in DOMAIN reservations :
       LET idx == find_restaurant_by_name(reservations[k].restaurant_name) IN
       /\ idx # 0
       /\ reservations[k].party_size <= restaurants[idx].seating_capacity

\* C1: after any sequence of make_reservation calls a record exists only if
\* the call's own availability check on the identical arguments was available;
\* an unavailable check gives success = FALSE with the check's message and an
\* unchanged map; every stored party_size fits the resolved restaurant.
C1_BookingFollowsCheck == []C1_Capacity /\ [][C1_Step]_vars

\* A failed booking (capacity exceeded) after a stored one.
C1_Witness ==
    /\ call.op = "make_reservation"
    /\ ~call.availability.available
    /\ ~call.result.success
    /\ call.party_size = 5
    /\ \E k \in DOMAIN reservations :
          /\ reservations[k].party_size = 2
          /\ reservations[k].restaurant_name = <<"G", "c">>

(***************************************************************************)
(* C2.  Confirmation codes of successful bookings.                         *)
(***************************************************************************)
\* C2 as stated: every confirmation code returned by a successful
\* make_reservation differs from every code returned earlier.
C2_CodesUnique ==
    \A i, j \in 1..Len(issued) : i # j => issued[i] # issued[j]

(***************************************************************************)
(* C3.  One call of process_message: one tool, two round-trips.            *)
(***************************************************************************)
\* the position of process_message in its own text
Rank(p) ==
    CASE p = "Sending" -> 1
      [] p = "AwaitingModel" -> 2
      [] p = "InvokingTool" -> 3
      [] p = "Logging" -> 4
      [] p = "FeedingBack" -> 5
      [] p = "FollowingUp" -> 6
      [] p = "AwaitingFollowup" -> 7
      [] p = "EmittingText" -> 8
      [] OTHER -> 0

C3_Bounds ==
    /\ turn.invoked <= 1
    /\ Len(turn.tool_execution_logs) <= 1
    /\ turn.sends <= 2

\* The follow-up's reply never starts a tool, whatever it carries, and
\* process_message never goes back to a step it has made.
C3_Step ==
    /\ pc = "AwaitingFollowup" =>
         /\ pc' = "EmittingText"
         /\ reservations' = reservations
         /\ issued' = issued
         /\ turn'.invoked = turn.invoked
         /\ turn'.tool_execution_logs = turn.tool_execution_logs
    /\ (pc # "Idle" /\ pc' # "Idle") => Rank(pc') > Rank(pc)

\* C3: in every call of process_message at most one tool function is executed
\* and at most two model round-trips are made; a function call carried by the
\* follow-up response is never executed and no step is retried.
C3_OneToolTwoRoundTrips == []C3_Bounds /\ [][C3_Step]_vars

\* process_message has run a tool, made both round-trips, and the follow-up
\* response carried a function call that was left alone.
C3_Witness ==
    /\ pc = "EmittingText"
    /\ turn.invoked = 1
    /\ turn.sends = 2
    /\ turn.failed = "none"
    /\ InspectResponse(turn.follow_up_response).function_call.kind
         = "function_call"
    /\ returned.text = Apology

(***************************************************************************)
(* C4.  The follow-up round-trip sees the turn's tool result.              *)
(***************************************************************************)
\* the entry is the feedback message of the turn's tool call
IsToolResultOfTurn(entry) ==
    /\ entry.role = "user"
    /\ entry.made_in = turn.number
    /\ Len(entry.parts) = 1
    /\ entry.parts[1].kind = "tool_result"
    /\ entry.parts[1].name = turn.function_call.name
    /\ entry.parts[1].serialized = Serialize(turn.tool_result)

\* the follow-up send of a turn with a tool call has been made
FollowUpSent ==
    /\ turn.function_call.kind = "function_call"
    /\ pc \in {"AwaitingFollowup", "EmittingText"}

\* C4 as stated: in every turn in which the model requests a tool, the
\* follow-up round-trip is sent only after the tool has run and its serialized
\* result was appended to the history, so the history the follow-up send
\* carries contains that turn's tool result.
C4_AsStated ==
    FollowUpSent =>
       /\ turn.sends = 2
       /\ Len(turn.tool_execution_logs) = 1
       /\ turn.tool_execution_logs[1].result = turn.tool_result
       /\ \E i \in DOMAIN turn.seen : IsToolResultOfTurn(turn.seen[i])

(***************************************************************************)
(* C5.  What the user reads after a failed tool call.                      *)
(***************************************************************************)
\* the turn's tool call failed: the name is not registered, or the tool raised
ToolCallFailed ==
    /\ Len(turn.tool_execution_logs) = 1
    /\ "error" \in DOMAIN turn.tool_execution_logs[1].result
    /\ turn.tool_execution_logs[1].result.message.fmt
         \in {"Tool '{}' not found.",
              "An error occurred while trying to execute the {} action."}

\* the characters of a tool's name
NameText(name) ==
    CASE name = "cancel_reservation" ->
           <<"c", "a", "n", "c", "e", "l", "_", "r", "e", "s", "e", "r",
             "v", "a", "t", "i", "o", "n">>
      [] name = "get_restaurant_details" ->
           <<"g", "e", "t", "_", "r", "e", "s", "t", "a", "u", "r", "a",
             "n", "t", "_", "d", "e", "t", "a", "i", "l", "s">>
      [] name = "list_restaurants" ->
           <<"l", "i", "s", "t", "_", "r", "e", "s", "t", "a", "u", "r",
             "a", "n", "t", "s">>
      [] name = "check_availability" ->
           <<"c", "h", "e", "c", "k", "_", "a", "v", "a", "i", "l", "a",
             "b", "i", "l", "i", "t", "y">>
      [] name = "make_reservation" ->
           <<"m", "a", "k", "e", "_", "r", "e", "s", "e", "r", "v", "a",
             "t", "i", "o", "n">>
      [] OTHER -> <<>>

\* C5 as stated: for every turn in which a tool call fails and every text the
\* model may produce in the follow-up, the returned text contains neither the
\* tool's name nor the word "tool".
C5_AsStated ==
    (/\ pc = "EmittingText"
     /\ ToolCallFailed
     /\ turn.failed = "none"
     /\ turn.follow_up_response.shape = "parts") =>
        /\ ~Contains(NameText(turn.function_call.name), returned.text)
        /\ ~Contains(<<"t", "o", "o", "l">>, Lower(returned.text))

(***************************************************************************)
(* C6.  A model round-trip that fails.                                     *)
(***************************************************************************)
\* C6: if the user send or the follow-up send of a turn fails, process_message
\* returns the technical-difficulties message with an empty tool-call log and
\* raises nothing.
C6_FailedRoundTrip ==
    turn.failed # "none" =>
        /\ pc \in {"EmittingText", "Idle"}
        /\ returned.text = TechnicalDifficulties
        /\ returned.logs = <<>>
        /\ ~returned.raised

\* the follow-up send failed after a tool had run and been logged in the turn
C6_Witness ==
    /\ pc = "EmittingText"
    /\ turn.failed = "followup"
    /\ Len(turn.tool_execution_logs) = 1
    /\ turn.invoked = 1
    /\ returned.logs = <<>>
    /\ returned.text = TechnicalDifficulties

(***************************************************************************)
(* C7.  The session's tool-call audit log.                                 *)
(***************************************************************************)
\* the step that ends a turn
TurnEnds == pc = "EmittingText" /\ pc' = "Idle"

\* C7 as stated: every tool call executed or attempted during a turn is an
\* entry of the session's log after the turn ends.
C7_AsStated ==
    [][TurnEnds =>
         \A i \in DOMAIN turn.tool_execution_logs :
            \E j \in DOMAIN tool_logs' :
               /\ tool_logs'[j].tool_call = turn.tool_execution_logs[i].tool_call
               /\ tool_logs'[j].result = turn.tool_execution_logs[i].result]_vars

\* C7, amended: when the turn ends, the entries {tool_call: {name, args},
\* result} of the tool calls it executed or attempted, success or error, are
\* added at the end of the session's log, provided both model round-trips of
\* the turn succeeded; a turn whose round-trip failed adds nothing.
C7_LoggedUnlessRoundTripFailed ==
    [][TurnEnds =>
         tool_logs' = IF turn.failed = "none"
                      THEN tool_logs \o turn.tool_execution_logs
                      ELSE tool_logs]_vars

\* two turns ended, one with an attempted call of an unregistered tool and
\* one with a booking, and both entries are in the session's log
C7_Witness ==
    /\ pc = "Idle"
    /\ nturns = 2
    /\ Len(tool_logs) = 2
    /\ "error" \in DOMAIN tool_logs[1].result
    /\ tool_logs[1].tool_call.name = "cancel_reservation"
    /\ tool_logs[2].tool_call.name = "make_reservation"
    /\ tool_logs[2] = turn.tool_execution_logs[1]

(***************************************************************************)
(* C8.  The final check on the returned text.                              *)
(***************************************************************************)
\* process_message has returned
HasReturned == pc = "EmittingText"

\* C8: the returned text is never empty and never contains "cannot fulfill
\* this request" in any letter case; a turn's text that is empty or contains
\* the phrase is replaced by the rephrase apology, and the turn's tool-call
\* log is returned with it.
C8_NeverEmptyNeverRefusal ==
    HasReturned =>
        /\ returned.text # <<>>
        /\ ~Contains(RefusalPhrase, Lower(returned.text))
        /\ (/\ turn.failed = "none"
            /\ \/ turn.final_response_text = <<>>
               \/ Contains(RefusalPhrase, Lower(turn.final_response_text)))
           => /\ returned.text = Apology
              /\ returned.logs = turn.tool_execution_logs

\* after a tool call, the follow-up text carried the phrase in capitals; the
\* apology came back with the turn's log
C8_Witness ==
    /\ HasReturned
    /\ turn.failed = "none"
    /\ turn.final_response_text = Refusal
    /\ Len(turn.tool_execution_logs) = 1
    /\ returned.text = Apology
    /\ returned.logs = turn.tool_execution_logs

(***************************************************************************)
(* C9.  A follow-up response without usable text.                          *)
(***************************************************************************)
\* the response has content, and none of its parts carries text
NoTextInParts(response) ==
    response.shape = "parts" /\ JoinTexts(response.parts, 1) = <<>>

\* C9 as stated, for content whose parts carry no text: in a turn with a tool
\* call, when the follow-up call succeeds but yields no usable text, the
\* returned text is "OK. What next?".
C9_AsStated ==
    (/\ pc = "EmittingText"
     /\ turn.failed = "none"
     /\ Len(turn.tool_execution_logs) = 1
     /\ NoTextInParts(turn.follow_up_response))
    => returned.text = OkWhatNext

(***************************************************************************)
(* C11.  check_availability against an opening-hours interval.             *)
(***************************************************************************)
\* the opening_hours entry the finished call looked up
HoursOfCall ==
    HoursOf(restaurants[find_restaurant_by_name(call.restaurant_name)],
            DayOfWeek(call.date))

\* an opening_hours entry that is an interval of two times, and its ends
IsInterval(hours) == Contains(<<"-">>, hours) /\ ParsedHours(hours)
OpenOf(hours) == Split(hours, "-")[1]
CloseOf(hours) == Split(hours, "-")[2]

\* The finished call was for a found restaurant, a valid date whose weekday
\* entry is an interval, and a valid time.
IntervalCall ==
    /\ call.op = "check_availability"
    /\ call.status = "done"
    /\ find_restaurant_by_name(call.restaurant_name) # 0
    /\ ValidDate(call.date)
    /\ ValidTime(call.time)
    /\ IsInterval(HoursOfCall)

\* the time of the call is before open or after close
OutsideHours ==
    \/ TimeBefore(call.time, OpenOf(HoursOfCall))
    \/ TimeBefore(CloseOf(HoursOfCall), call.time)

\* the party of the call is at most the seating capacity of the restaurant
PartyFits ==
    call.party_size
      <= restaurants[find_restaurant_by_name(call.restaurant_name)].seating_capacity

\* C11 as stated: when the weekday's entry is an interval open-close, a time
\* before open or after close is never available, and a time equal to open or
\* to close proceeds to the draw.
C11_AsStated ==
    IntervalCall =>
       /\ OutsideHours => ~call.result.available
       /\ call.time \in {OpenOf(HoursOfCall), CloseOf(HoursOfCall)} => call.drew

\* C11 amended: when the weekday's opening_hours entry is an interval
\* open-close and party_size is at most the seating capacity, a time before
\* open or after close is never available, whatever the draw, and is not
\* drawn for; a time from open to close, both ends included, proceeds to the
\* draw.  A larger party_size gets the capacity rejection at any time, without
\* a draw.
C11_WithinHours ==
    IntervalCall =>
       IF ~PartyFits
       THEN /\ ~call.result.available
            /\ ~call.drew
            /\ call.result.message.fmt
                 = "Party size of {} exceeds the maximum capacity of {}."
       ELSE IF OutsideHours
       THEN /\ ~call.result.available
            /\ ~call.drew
            /\ call.result.message.fmt = "{} is only open from {} to {} on {}."
       ELSE /\ call.drew
            /\ call.result.message.fmt
                 \in {"Table for {} is available at {} on {} at {}.",
                      "Sorry, {} is fully booked at that time. Please try another time."}

\* a call at the closing time itself, for a party that fits, drew, and the
\* table was available
C11_Witness ==
    /\ IntervalCall
    /\ PartyFits
    /\ call.time = CloseOf(HoursOfCall)
    /\ call.drew
    /\ call.result.available

(***************************************************************************)
(* C12.  find_restaurant_by_name.                                          *)
(***************************************************************************)
\* the records whose name equals the query, letter case ignored
ExactMatches(name) ==
    {i \in 1..Len(restaurants) : Lower(restaurants[i].name) = Lower(name)}

\* the records whose name contains the query, letter case ignored
SubstringMatches(name) ==
    {i \in 1..Len(restaurants) :
        Contains(Lower(name), Lower(restaurants[i].name))}

FindDone == call.op = "find_restaurant_by_name" /\ call.status = "done"

\* C12: find_restaurant_by_name returns a record whose name equals the query
\* case-insensitively whenever the catalog has one, also when other records
\* contain the query; it returns no record for an empty query or when no name
\* contains the query.
C12_ExactMatchWins ==
    FindDone =>
       /\ (call.name # <<>> /\ ExactMatches(call.name) # {})
            => call.result \in ExactMatches(call.name)
       /\ (call.name = <<>> \/ SubstringMatches(call.name) = {})
            => call.result = 0

\* the query "aB" found the record named "Ab" although two more names
\* contain it
C12_Witness ==
    /\ FindDone
    /\ call.name = <<"a", "B">>
    /\ call.result = 1
    /\ Cardinality(SubstringMatches(call.name)) = 3

(***************************************************************************)
(* C13.  get_restaurants.                                                  *)
(***************************************************************************)
\* the filter k is supplied and not empty; a party_size that is no number is
\* no filter
Supplied(criteria, k) ==
    /\ k \in DOMAIN criteria
    /\ IF k = "party_size"
       THEN IntOk(criteria[k]) /\ IntValue(criteria[k]) # 0
       ELSE criteria[k] # <<>>

\* q is in s, letter case ignored
InIgnoringCase(q, s) == Contains(Lower(q), Lower(s))

\* the record r satisfies the filter k of the criteria
Satisfies(r, criteria, k) ==
    CASE k = "cuisine" -> InIgnoringCase(criteria[k], r.cuisine)
      [] k = "location" -> \/ InIgnoringCase(criteria[k], r.location)
                           \/ InIgnoringCase(criteria[k], r.address)
      [] k = "party_size" -> r.seating_capacity >= IntValue(criteria[k])
      [] OTHER -> \/ InIgnoringCase(criteria[k], r.name)
                  \/ InIgnoringCase(criteria[k], r.description)
                  \/ \E i \in 1..Len(r.tags) :
                        InIgnoringCase(criteria[k], r.tags[i])

\* the positions of the catalog records that satisfy every supplied filter
Wanted(criteria) ==
    {i \in 1..Len(restaurants) :
        \A k \in {"cuisine", "location", "party_size", "text"} :
           Supplied(criteria, k) => Satisfies(restaurants[i], criteria, k)}

SearchDone == call.op = "get_restaurants" /\ call.status = "done"

\* C13: get_restaurants returns exactly the catalog records that satisfy every
\* supplied non-empty filter at once, letter case ignored, in catalog order;
\* with absent or empty criteria it returns the whole catalog.
C13_ConjunctiveFilters ==
    SearchDone =>
       /\ {call.result[j].id : j \in 1..Len(call.result)}
            = {restaurants[i].id : i \in Wanted(call.criteria)}
       /\ \A j \in 1..Len(call.result) :
             /\ \E i \in Wanted(call.criteria) : call.result[j] = restaurants[i]
             /\ \A j2 \in 1..Len(call.result) :
                   j < j2 => call.result[j].id < call.result[j2].id
       /\ (\A k \in {"cuisine", "location", "party_size", "text"} :
              ~Supplied(call.criteria, k))
            => call.result = restaurants

\* cuisine "TH" and text "gc" together kept the third record only, although
\* each filter alone keeps two
C13_Witness ==
    /\ SearchDone
    /\ DOMAIN call.criteria = {"cuisine", "text"}
    /\ call.criteria["cuisine"] = <<"T", "H">>
    /\ call.criteria["text"] = <<"g", "c">>
    /\ Len(call.result) = 1
    /\ call.result[1].id = 3

(***************************************************************************)
(* C14.  Clear Chat History.                                               *)
(***************************************************************************)
\* the history a send of the turn carried, when the turn was started after
\* the _start_conversation that made the chat of that send
SentAfterReset ==
    /\ turn.seen # <<>>
    /\ turn.number > turn.seen[1].made_in

\* C14 as stated: after a session reset the history sent to the model in every
\* later turn holds only the system prime and turns made after the reset, no
\* user utterance, model reply or tool-result turn of a turn from before it.
C14_AsStated ==
    SentAfterReset =>
       /\ turn.seen[1].role = "user"
       /\ turn.seen[1].parts = << TextPart(SystemPrompt) >>
       /\ \A i \in 2..Len(turn.seen) :
             turn.seen[i].made_in > turn.seen[1].made_in

(***************************************************************************)
(* C15.  Several UI sessions and the conversation state.                   *)
(***************************************************************************)
\* C15 as stated, its first half: each conversation state is used by one
\* session only, so the turns of a history were all made by the same session.
C15_AsStated ==
    \A i, j \in 2..Len(history) : history[i].by = history[j].by

(***************************************************************************)
(* C16.  Bookings made by different sessions reach the one DataManager of  *)
(* tools.py; each MakeReservationCall is one whole call, so a behaviour of *)
(* SpecBook is a serial order of the sessions' calls.                      *)
(***************************************************************************)
\* the record make_reservation stored stays in the reservation map as it is
RecordKept(k) ==
    /\ k \in DOMAIN reservations'
    /\ reservations'[k] = reservations[k]

\* C16 as stated: every booking that returned success has its own record in
\* the reservation map afterwards, under the code it was given and with its
\* details: no later call removes or replaces the record of an earlier one.
C16_AsStated == [][\A k \in DOMAIN reservations : RecordKept(k)]_vars

(***************************************************************************)
(* C17.  What a tool operation gives back for the arguments the model      *)
(* sent.                                                                   *)
(***************************************************************************)
\* the result logged for the turn's tool call is the one _execute_tool makes
\* up in its except branch: the call of the registered function raised
ToolRaised(entry) ==
    /\ "error" \in DOMAIN entry.result
    /\ entry.result.message.fmt =
         "An error occurred while trying to execute the {} action."

\* C17 as stated: whatever arguments the model sends, a registered tool
\* operation returns a result of its own and raises nothing, so no logged
\* result is the one made up for an exception.
C17_AsStated ==
    \A i \in 1..Len(turn.tool_execution_logs) :
       ~ToolRaised(turn.tool_execution_logs[i])

(***************************************************************************)
(* C18.  process_message returns.                                          *)
(***************************************************************************)
InFlight ==
    pc \in {"Sending", "AwaitingModel", "InvokingTool", "Logging",
            "FeedingBack", "FollowingUp", "AwaitingFollowup"}

\* process_message returned a pair of a text and a list of log entries
ReturnedPair ==
    /\ pc = "EmittingText"
    /\ ~returned.raised
    /\ returned.text # <<>>
    /\ Len(returned.logs) <= 1

\* C18: when each model call eventually returns or fails, a turn that is
\* awaiting the model, invoking a tool or awaiting the follow-up eventually
\* reaches the text-emitting end with a (text, tool-call log) pair, on the
\* success path and on every failure path.
C18_TurnReturns == InFlight ~> ReturnedPair

\* the follow-up send of a turn that ran a tool raised, and the turn returned
C18_Witness ==
    /\ ReturnedPair
    /\ turn.failed = "followup"
    /\ turn.invoked = 1
    /\ returned.text = TechnicalDifficulties

(***************************************************************************)
(* C19.  Startup on a missing or malformed catalog source.                 *)
(***************************************************************************)
Malformed(source) == source.exists /\ (~source.utf8 \/ ~source.json)

\* the results of the Catalog Store calls on an empty catalog
NothingFound ==
    /\ call.op = "get_restaurants" => call.result = <<>>
    /\ call.op = "find_restaurant_by_name" => call.result = 0
    /\ call.op = "check_availability" =>
          /\ ~call.result.available
          /\ call.result.message.fmt = "Restaurant '{}' not found."
    /\ call.op = "make_reservation" => ~call.result.success

\* C19 as stated: on a missing or malformed source startup does not fail and
\* the catalog is empty, and from then on searches return no records, lookups
\* and availability checks report not found, and no booking succeeds.
C19_AsStated ==
    /\ (call.op = "__init__" /\ (~call.source.exists \/ Malformed(call.source)))
          => (call.status = "done" /\ restaurants = <<>>)
    /\ (restaurants = <<>> /\ call.status = "done" /\ call.op # "__init__")
          => NothingFound

(***************************************************************************)
(* C20.  The model asks for an operation TOOL_MAP does not hold.           *)
(***************************************************************************)
Unregistered ==
    /\ turn.function_call.kind = "function_call"
    /\ turn.function_call.name \notin ToolNames

NotFoundResult ==
    [error |-> TRUE,
     message |-> [fmt |-> "Tool '{}' not found.",
                  name |-> turn.function_call.name]]

\* C20 as stated: when the model requests a name that is not in the tool map,
\* no tool function is invoked and the Catalog Store is not touched; the
\* result is {error: true, message: "Tool '<name>' not found."}, it is what
\* the turn's log records and what is fed back to the model, and the follow-up
\* model call is still made.
\* (No turn of the two sessions books, so the untouched reservation map is
\* the empty one.)
C20_AsStated ==
    (Unregistered /\ pc \in {"AwaitingFollowup", "EmittingText"}) =>
       /\ turn.invoked = 0
       /\ reservations = <<>>
       /\ issued = <<>>
       /\ turn.tool_execution_logs =
            << [tool_call |-> ToolCallOf(turn.function_call),
                result |-> NotFoundResult] >>
       /\ turn.sends = 2
       /\ \E i \in DOMAIN turn.seen :
             /\ IsToolResultOfTurn(turn.seen[i])
             /\ turn.seen[i].parts[1].serialized = Serialize(NotFoundResult)

(***************************************************************************)
(* C21.  A registered tool raises during its invocation.                   *)
(***************************************************************************)
\* the turn's function call names a registered tool whose call raises
RegisteredToolRaises ==
    /\ turn.function_call.kind = "function_call"
    /\ turn.function_call.name \in ToolNames
    /\ \A draw \in BOOLEAN, code \in Codes :
          CallTool(turn.function_call.name, turn.function_call.args,
                   draw, code).raised

GenericFailure ==
    [error |-> TRUE,
     message |-> [fmt |-> "An error occurred while trying to execute the {} action.",
                  name |-> turn.function_call.name]]

\* the steps from the invocation of the tool to the follow-up send
C21_Step ==
    /\ (pc = "InvokingTool" /\ RegisteredToolRaises /\ pc' # pc) =>
          /\ turn'.tool_result = GenericFailure
          /\ turn'.failed = "none"
          /\ pc' = "Logging"
    /\ (pc = "Logging" /\ RegisteredToolRaises /\ pc' # pc) =>
          /\ turn'.tool_execution_logs =
               << [tool_call |-> ToolCallOf(turn.function_call),
                   result |-> GenericFailure] >>
          /\ turn'.failed = "none"
          /\ pc' = "FeedingBack"
    /\ (pc = "FeedingBack" /\ RegisteredToolRaises /\ pc' # pc) =>
          /\ Len(history') = Len(history) + 1
          /\ history'[Len(history')].parts[1].serialized
               = Serialize(GenericFailure)
          /\ turn'.failed = "none"
          /\ pc' = "FollowingUp"
    /\ (pc = "FollowingUp" /\ RegisteredToolRaises /\ pc' # pc) =>
          /\ turn'.failed = "none"
          /\ Len(turn'.seen) = Len(history)
          /\ turn'.seen[Len(history)].parts[1].serialized
               = Serialize(GenericFailure)
          /\ pc' = "AwaitingFollowup"

\* once the turn is over: the follow-up send was made, and the log that comes
\* back when it answered holds the generic result
C21_After ==
    (pc = "EmittingText" /\ RegisteredToolRaises) =>
       /\ turn.sends = 2
       /\ turn.failed # "user"
       /\ turn.failed = "none" =>
             returned.logs = << [tool_call |-> ToolCallOf(turn.function_call),
                                 result |-> GenericFailure] >>

\* C21: when a registered tool raises during invocation, the result is
\* {error: true, message: "An error occurred while trying to execute the
\* <name> action."}; the exception's own text is neither in the result fed to
\* the model nor in the turn's log, and the turn goes on to the follow-up call
\* instead of ending in the top-level failure handler.
C21_RaisedToolConverted == []C21_After /\ [][C21_Step]_vars

\* get_restaurant_details called without its argument raised; the follow-up
\* answered and the generic result came back in the log
C21_Witness ==
    /\ pc = "EmittingText"
    /\ RegisteredToolRaises
    /\ turn.function_call.name = "get_restaurant_details"
    /\ turn.invoked = 1
    /\ turn.failed = "none"
    /\ returned.logs[1].result = GenericFailure

(***************************************************************************)
(* C22.  Which part of the first response the turn acts on.                *)
(***************************************************************************)
\* the positions of the function-call parts with a non-empty name
ValidCalls(response) ==
    IF response.shape # "parts" THEN {}
    ELSE {i \in 1..Len(response.parts) :
             /\ response.parts[i].kind = "function_call"
             /\ response.parts[i].name # ""}

FirstValidCall(response) ==
    response.parts[CHOOSE i \in ValidCalls(response) :
                      \A j \in ValidCalls(response) : i <= j]

Answered ==
    pc \in {"InvokingTool", "Logging", "FeedingBack", "FollowingUp",
            "AwaitingFollowup", "EmittingText"}

\* the response holds a valid function call: the first one is executed, and
\* the returned text is the follow-up's or a fallback
C22_CallHonoured ==
    (Answered /\ turn.failed # "user" /\ ValidCalls(turn.response) # {}) =>
       /\ turn.function_call = FirstValidCall(turn.response)
       /\ \A i \in 1..Len(turn.tool_execution_logs) :
             turn.tool_execution_logs[i].tool_call
                = ToolCallOf(FirstValidCall(turn.response))
       /\ pc = "EmittingText" =>
             /\ Len(turn.tool_execution_logs) = 1
             /\ returned.text =
                  IF turn.failed = "followup" THEN TechnicalDifficulties
                  ELSE FinalText(FollowUpText(turn.follow_up_response))

\* the response holds no valid function call: nothing is executed and the
\* turn's text is the text of the response's parts
C22_TextOnly ==
    (pc = "EmittingText" /\ turn.failed = "none"
        /\ turn.response.shape = "parts" /\ ValidCalls(turn.response) = {}) =>
       /\ turn.function_call = NoFunctionCall
       /\ turn.tool_execution_logs = <<>>
       /\ turn.sends = 1
       /\ turn.final_response_text = JoinTexts(turn.response.parts, 1)
       /\ returned.text = FinalText(JoinTexts(turn.response.parts, 1))

\* C22: when the response contains a function-call part with a non-empty
\* name, the first such part in part order is the one executed and every text
\* part of that response is discarded: the returned text comes only from the
\* follow-up response or a fallback.  A function-call part with an empty name
\* is treated as absent, and the response's text parts are the turn's result.
C22_FirstValidCallOnly == C22_CallHonoured /\ C22_TextOnly

\* a text part followed by a check_availability call: the call ran and the
\* returned text is the follow-up's, without the text part
C22_Witness ==
    /\ pc = "EmittingText"
    /\ turn.response = Parts(<< TextPart(Greeting),
                                FunctionCall("check_availability", CheckArgs) >>)
    /\ turn.follow_up_response
         = Parts(<< TextPart(SubSeq(BookedForYou, 1, 7)),
                    TextPart(SubSeq(BookedForYou, 8, Len(BookedForYou))) >>)
    /\ returned.text = BookedForYou
    /\ returned.logs[1].tool_call.name = "check_availability"

(***************************************************************************)
(* C23.  find_restaurant_by_name among several partial matches.            *)
(***************************************************************************)
\* how far the length of record i's name is from the query's
LengthDifference(i) == Abs(Len(restaurants[i].name) - Len(call.name))

\* C23: when no name equals the query and several names contain it as a
\* case-insensitive substring, the result is the match whose name length
\* differs least from the query length and, among matches with the same
\* difference, the one that comes first in catalog order.
C23_ClosestLength ==
    (/\ FindDone
     /\ call.name # <<>>
     /\ ExactMatches(call.name) = {}
     /\ Cardinality(SubstringMatches(call.name)) >= 2) =>
       /\ call.result \in SubstringMatches(call.name)
       /\ \A j \in SubstringMatches(call.name) :
             \/ LengthDifference(call.result) < LengthDifference(j)
             \/ /\ LengthDifference(call.result) = LengthDifference(j)
                /\ call.result <= j

\* in the catalog listing "Da Ab", "Ab Gc", "Ab" the query "b" is in all
\* three names; the third, the closest in length, was returned
C23_Witness ==
    /\ FindDone
    /\ restaurants = ReversedCatalog
    /\ call.name = <<"b">>
    /\ ExactMatches(call.name) = {}
    /\ SubstringMatches(call.name) = {1, 2, 3}
    /\ call.result = 3

(***************************************************************************)
(* C24.  Which rejection check_availability reports.                       *)
(***************************************************************************)
CheckDone == call.op = "check_availability" /\ call.status = "done"

\* the record the name of the call finds, 0 for none
Found == find_restaurant_by_name(call.restaurant_name)

\* the opening hours of the found record on the day of the call's date
HoursThatDay == HoursOf(restaurants[Found], DayOfWeek(call.date))

\* the rejection conditions that hold for the call, each taken by itself
Rejections ==
    IF Found = 0 THEN {"NotFound"}
    ELSE
      {c \in {"InvalidFormat"} :
          ~ValidDate(call.date) \/ ~ValidTime(call.time)}
      \cup
      {c \in {"CapacityExceeded"} :
          call.party_size > restaurants[Found].seating_capacity}
      \cup
      {c \in {"Closed"} :
          ValidDate(call.date) /\ HoursThatDay = Closed}
      \cup
      {c \in {"OutOfHours"} :
          /\ ValidDate(call.date) /\ ValidTime(call.time)
          /\ IsInterval(HoursThatDay)
          /\ \/ TimeBefore(call.time, OpenOf(HoursThatDay))
             \/ TimeBefore(CloseOf(HoursThatDay), call.time)}

RejectionOrder ==
    << "NotFound", "InvalidFormat", "CapacityExceeded", "Closed",
       "OutOfHours" >>

FirstRejection ==
    RejectionOrder[CHOOSE i \in 1..Len(RejectionOrder) :
                      /\ RejectionOrder[i] \in Rejections
                      /\ \A j \in 1..(i - 1) : RejectionOrder[j] \notin Rejections]

\* the rejection a returned message reports
Reported(fmt) ==
    CASE fmt = "Restaurant '{}' not found." -> "NotFound"
      [] fmt = "Invalid date or time format: {}" -> "InvalidFormat"
      [] fmt = "Party size of {} exceeds the maximum capacity of {}."
           -> "CapacityExceeded"
      [] fmt = "{} is closed on {}." -> "Closed"
      [] fmt = "{} is only open from {} to {} on {}." -> "OutOfHours"
      [] OTHER -> "None"

\* C24: when several rejection conditions hold for one check_availability
\* call, the one reported is the first in the order NotFound, InvalidFormat,
\* CapacityExceeded, Closed, OutOfHours; the random draw is made only when
\* none of them holds, so a rejected call gives the same result whatever the
\* draw would have been.
C24_FirstRejectionReported ==
    CheckDone =>
       IF Rejections = {}
       THEN call.drew /\ Reported(call.result.message.fmt) = "None"
       ELSE /\ ~call.drew
            /\ ~call.result.available
            /\ Reported(call.result.message.fmt) = FirstRejection
            /\ \A draw \in BOOLEAN :
                  call.result = check_availability(call.restaurant_name,
                                                   call.date, call.time,
                                                   call.party_size, draw)

\* a party of 3 at "Gc" (capacity 2) on a Monday, when it is closed: both
\* conditions hold and the capacity is the one reported
C24_Witness ==
    /\ CheckDone
    /\ {"CapacityExceeded", "Closed"} \subseteq Rejections
    /\ call.restaurant_name = <<"G", "c">>
    /\ call.party_size = 3
    /\ Reported(call.result.message.fmt) = "CapacityExceeded"

(***************************************************************************)
(* C25.  The validation of the make_reservation tool.                      *)
(***************************************************************************)
\* the value is a whole number greater than zero
PositiveInteger(v) ==
    "int" \in DOMAIN v /\ "frac" \notin DOMAIN v /\ v.int > 0

\* the arguments the claim lists as rejected
RejectedBooking(args) ==
    \/ ~PositiveInteger(args["party_size"])
    \/ args["user_name"] = <<>>
    \/ args["user_phone"] = <<>>
    \/ Len(Split(args["date"], "-")) # 3
    \/ Len(Split(args["time"], ":")) # 2

\* the turn ran the make_reservation tool on arguments that bind
BookingToolRan ==
    /\ Len(turn.tool_execution_logs) = 1
    /\ turn.tool_execution_logs[1].tool_call.name = "make_reservation"
    /\ Binds("make_reservation", turn.tool_execution_logs[1].tool_call.args)

\* C25 as stated: whenever party_size is not a positive integer, user_name or
\* user_phone is empty, date has not three components or time has not two,
\* the make_reservation tool returns {error: true, message} without calling
\* the Catalog Store: the reservation map is unchanged and no code is issued.
C25_AsStated ==
    (BookingToolRan
       /\ RejectedBooking(turn.tool_execution_logs[1].tool_call.args)) =>
       /\ "error" \in DOMAIN turn.tool_execution_logs[1].result
       /\ call = NoCall
       /\ reservations = <<>>
       /\ issued = <<>>

(***************************************************************************)
(* C26.  A tool result that json.dumps cannot encode.                      *)
(***************************************************************************)
\* the turn's tool returned a result that cannot be serialized
UnserializableResult ==
    /\ Len(turn.tool_execution_logs) = 1
    /\ ~Serializable(turn.tool_execution_logs[1].result)

\* C26 as stated: when a tool's result cannot be serialized for the follow-up
\* turn, the turn ends with the technical-difficulties message and an empty
\* tool-call log, like any other turn-level failure.
C26_AsStated ==
    (pc = "EmittingText" /\ UnserializableResult) =>
       /\ returned.text = TechnicalDifficulties
       /\ returned.logs = <<>>

(***************************************************************************)
(* C27.  The catalog after load.                                           *)
(***************************************************************************)
\* C27: the restaurant catalog is the same list, with the same records in the
\* same order, after any sequence of search, name lookup, availability check,
\* booking, reservation lookup and session reset: no operation adds, removes,
\* reorders or changes a restaurant record after load.
C27_CatalogUnchanged == [](restaurants = Catalog) /\ [][restaurants' = restaurants]_vars

\* after a booking made in a turn and a session reset, a search by cuisine
\* returned two records of the three
C27_Witness ==
    /\ call.op = "get_restaurants"
    /\ call.status = "done"
    /\ Len(call.result) = 2
    /\ Len(restaurants) = 3
    /\ Len(issued) = 1
    /\ pc = "Idle"
    /\ history = StartedHistory(1, 1)

(***************************************************************************)
(* C28.  The reservation map after a turn that reported a failure.         *)
(***************************************************************************)
\* process_message returned the technical-difficulties text and an empty log
ReportedFailure ==
    /\ pc = "EmittingText"
    /\ returned.text = TechnicalDifficulties
    /\ returned.logs = <<>>

\* C28 as stated: a turn for which process_message returns the
\* technical-difficulties message and an empty tool-call log has left the
\* reservation map as it was before the turn, which for the first turn of a
\* process is empty: no reservation was created by a make_reservation call
\* whose follow-up round-trip then failed.
C28_AsStated == ReportedFailure => (reservations = <<>> /\ issued = <<>>)

(***************************************************************************)
(* C29.  What changes the reservation map.                                 *)
(***************************************************************************)
\* the step is a make_reservation call that returned success
BookingSucceeds ==
    /\ call'.op = "make_reservation"
    /\ call'.result.success
    /\ call' # call \/ issued' # issued

\* the map after the step is the map before it with one record put in, under
\* the code the call returned and with the details the call was given
OneRecordInserted ==
    /\ DOMAIN reservations'
         = DOMAIN reservations \cup {call'.result.confirmation_code}
    /\ \A k \in DOMAIN reservations \ {call'.result.confirmation_code} :
          reservations'[k] = reservations[k]
    /\ reservations'[call'.result.confirmation_code].restaurant_name
         = call'.restaurant_name
    /\ reservations'[call'.result.confirmation_code].user_name
         = call'.user_name

\* C29: the reservation map changes only on the success path of
\* make_reservation, by the insert of one record; list_restaurants,
\* get_restaurant_details, check_availability, get_reservation, a failed
\* make_reservation, a turn without a tool call and a session reset leave it
\* unchanged, so reservations survive a session reset.
C29_OnlyBookingChangesMap ==
    [][(reservations' # reservations) => (BookingSucceeds /\ OneRecordInserted)]_vars

\* a reservation made in a turn is still retrievable after the session reset
C29_Witness ==
    /\ pc = "Idle"
    /\ nturns = 1
    /\ history = StartedHistory(1, 1)
    /\ tool_logs = <<>>
    /\ Len(issued) = 1
    /\ call.op = "get_reservation"
    /\ call.result.found
    /\ call.result.reservation.restaurant_name = <<"a", "B">>

(***************************************************************************)
(* C30.  check_availability and the reservation map.                       *)
(***************************************************************************)
\* the results check_availability can return for the arguments, over the
\* values of the draw
PossibleResults(n, d, t, p) ==
    UNION { UNION { { AvailabilityResult(outcome, idx, n, d, t, p, draw) :
                        draw \in BOOLEAN } :
                    outcome \in {OutcomeAt(idx, d, t, p)} } :
            idx \in {find_restaurant_by_name(n)} }

\* a step that changes the reservation map leaves the possible results for
\* every restaurant, date, time and party size as they were
C30_Step ==
    (reservations' # reservations) =>
       \A n \in BookNames, d \in BookDates, t \in BookTimes,
          p \in BookPartySizes :
          PossibleResults(n, d, t, p)' = PossibleResults(n, d, t, p)

\* the slot of every stored reservation can still be found available
C30_BookedSlotOpen ==
    \A k \in DOMAIN reservations :
       \E result \in PossibleResults(reservations[k].restaurant_name,
                                     reservations[k].date,
                                     reservations[k].time,
                                     reservations[k].party_size) :
          result.available

\* C30: the set of results check_availability can return for given arguments
\* is the same in every reachable state; it does not depend on the contents
\* of the reservation map, so an existing booking for a restaurant, date and
\* time never makes a later check or booking of that slot unavailable.
C30_IndependentOfBookings == []C30_BookedSlotOpen /\ [][C30_Step]_vars

\* two bookings of the same restaurant, date and time, both successful
C30_Witness ==
    /\ Cardinality(DOMAIN reservations) = 2
    /\ \A j, k \in DOMAIN reservations :
          /\ reservations[j].restaurant_name = reservations[k].restaurant_name
          /\ reservations[j].date = reservations[k].date
          /\ reservations[j].time = reservations[k].time
    /\ call.op = "make_reservation"
    /\ call.result.success

====
